---- MODULE Spec2Model ----
(***************************************************************************)
(* Order reconciliation of the Shopify -> Odoo connector (src/app.py,      *)
(* process_order_data) against the Odoo gateway (src/odoo_client.py).      *)
(*                                                                         *)
(* Every XML-RPC round trip of a delivery is one atomic step, so that      *)
(* deliveries handled by different threads interleave between any two ERP  *)
(* calls.  The ERP tables are sequences; a record's id is its index and    *)
(* the id 0 stands for Python's None / Odoo's False.                       *)
(***************************************************************************)
EXTENDS Integers, Sequences, FiniteSets, TLC

\* ---------------------------------------------------------------- bounds
MaxDeliveries == 2      \* deliveries (process_order_data calls) per behaviour
MaxItems == 2           \* line items per payload, sequential deliveries
MaxFaults == 1          \* ERP calls that fail (raise) per behaviour
MaxPrice == 10          \* range of unit_price in the discount computation
MaxQty == 3             \* range of quantity in the discount computation
MaxDisc == 4            \* range of total_discount in the discount computation
MaxShopProducts == 2    \* storefront products before a catalog pass
MaxStock == 1           \* range of the stock quantities of a product
MaxRuns == 2            \* passes of the inventory sync per behaviour
MaxMinutes == 100       \* minutes of scheduler time per behaviour
ClockStep == 5          \* minutes between two readings of the clock
MaxChanges == 2         \* ERP product changes per behaviour

Calls == 1..MaxDeliveries

VARIABLES
    active_processing_ids,  \* app.py:56, the in-flight registry
    sale_order,             \* ERP table sale.order
    product_product,        \* ERP table product.product
    res_partner,            \* ERP table res.partner (active records)
    calls,                  \* one record per delivery: position, payload, locals
    faults,                 \* ERP and ledger calls that have failed so far
    disc,                   \* the discount computation on its own
    SHOPIFY_SECRET,         \* os.getenv('SHOPIFY_SECRET'), "" when not set
    product_public_category, \* ERP table product.public.category (names)
    product_categ_rel,      \* ERP relation public_categ_ids: <<product, category>>
    qty_available,          \* ERP stock on hand, by product id
    shopify_products,       \* storefront products, in listing order
    master_sync,            \* the run of sync_products_master
    inventory_sync,         \* the run of perform_inventory_sync
    app_settings,           \* table app_settings (models.py:52-58)
    customer_sync,          \* the run of sync_customers_master
    res_partner_child,      \* ERP table res.partner: the child contacts
    duplicate_scan,         \* the run of archive_shopify_duplicates
    inventory_schedule      \* run_schedule: the clock and the inventory job

\* What process_order_data never touches.
otherVars == <<SHOPIFY_SECRET, product_public_category, product_categ_rel,
               qty_available, shopify_products, master_sync, inventory_sync,
               app_settings, customer_sync, res_partner_child, duplicate_scan,
               inventory_schedule>>

vars == <<active_processing_ids, sale_order, product_product, res_partner,
          calls, faults, disc, otherVars>>

\* ------------------------------------------------------------- ERP data
\* The company of the connector's ERP user (res.users read, app.py:254-256).
UserCompany == 1

\* The connector's own ERP user, odoo.uid.
OdooUid == "uid_connector"

InitPartners ==
    << [name |-> "Corp", email |-> "billing@corp.com", parent_id |-> 0,
        user_id |-> "uid_rep"],
       [name |-> "Ann Lee", email |-> "a@b.com", parent_id |-> 1,
        user_id |-> ""] >>

\* A partner of the ERP without an email address.
WalkIn == [name |-> "Walk-in", email |-> "", parent_id |-> 0, user_id |-> ""]

InitProducts ==
    << [default_code |-> "X1", active |-> TRUE, company_id |-> 0],
       [default_code |-> "ARC", active |-> FALSE, company_id |-> 1],
       [default_code |-> "FGN", active |-> TRUE, company_id |-> 2] >>

\* ------------------------------------------------------------- payloads
\* A payload without an id gives shopify_id = str('') (app.py:237).
OrderIds == {"", "5001", "5002"}
OrderNames == {"#1001", "#1002"}
Emails == {"a@b.com", "new@x.com"}

Item(sku, price, quantity, total_discount) ==
    [sku |-> sku, price |-> price, quantity |-> quantity,
     total_discount |-> total_discount]

ItemPool ==
    { Item("X1", 10, 2, 4), Item("X1", 10, 0, 0), Item("ARC", 10, 1, 0),
      Item("NEW", 0, 1, 0), Item("FGN", 5, 1, 0), Item("", 10, 1, 0) }

ConcurrentItemPool ==
    { Item("X1", 10, 2, 4), Item("ARC", 10, 1, 0), Item("NEW", 0, 1, 0) }

ItemLists(pool, n) == UNION { [1..k -> pool] : k \in 0..n }

\* shipping_lines of the payload: a priced and a free shipping line.
ShippingLine(title, price) == [title |-> title, price |-> price]

NoShipping == { <<>> }

ShippingLists ==
    { <<>>, << ShippingLine("Standard", 5) >>, << ShippingLine("Free", 0) >> }

\* payment_gateway_names of the payload: every order names its gateway.
GatewayNames == { << "shopify_payments" >> }

\* customer_name is customer.first_name and last_name, joined and stripped;
\* address_name is the name of the billing (or shipping) address.
Payloads(ids, names, emails, lists, ships) ==
    [id : ids, name : names, email : emails, line_items : lists,
     shipping_lines : ships, payment_gateway_names : GatewayNames,
     customer_name : {"Ann Lee"}, address_name : {"Ann Lee"}]

NoData == [id |-> "", name |-> "", email |-> "", line_items |-> <<>>,
           shipping_lines |-> <<>>, payment_gateway_names |-> <<>>,
           customer_name |-> "", address_name |-> ""]

\* ----------------------------------------------------- gateway (reads)
\* client_ref = f"ONLINE_{shopify_name}"
ClientRef(shopify_name) == "ONLINE_" \o shopify_name

\* The optional company clause of the product domains:
\* '|', ['company_id', '=', company_id], ['company_id', '=', False].
CompanyClause(p, company_id) ==
    company_id = 0 \/ p.company_id = company_id \/ p.company_id = 0

\* A search returns ids in the ERP's own order and the caller takes ids[0]:
\* any matching id may come first; 0 when nothing matches.
FirstOf(ids) == IF ids = {} THEN {0} ELSE ids

\* Mutant: the search without its ['active', '=', True] term.
search_product_by_sku_any(sku, company_id) ==
    FirstOf({ i \in DOMAIN product_product :
                /\ product_product[i].default_code = sku
                /\ CompanyClause(product_product[i], company_id) })

search_product_by_sku(sku, company_id) ==
    FirstOf({ i \in DOMAIN product_product :
                /\ product_product[i].default_code = sku
                /\ product_product[i].active
                /\ CompanyClause(product_product[i], company_id) })

\* Mutant: the existence check matching archived products only.
check_product_archived_only(sku, company_id) ==
    FirstOf({ i \in DOMAIN product_product :
                /\ product_product[i].default_code = sku
                /\ ~product_product[i].active
                /\ CompanyClause(product_product[i], company_id) })

check_product_exists_by_sku(sku, company_id) ==
    FirstOf({ i \in DOMAIN product_product :
                /\ product_product[i].default_code = sku
                /\ (product_product[i].active \/ ~product_product[i].active)
                /\ CompanyClause(product_product[i], company_id) })

search_partner_by_email(email) ==
    FirstOf({ i \in DOMAIN res_partner : res_partner[i].email = email })

get_partner_salesperson(partner_id) == res_partner[partner_id].user_id

\* sale.order search on client_order_ref (app.py:262-265).
SearchExistingOrder(client_ref) ==
    FirstOf({ i \in DOMAIN sale_order : sale_order[i].client_order_ref = client_ref })

\* Mutant: the matched partner itself, also when it has a parent.
ResolvePartnerId_Self(id) == id

\* partner['parent_id'][0] if partner.get('parent_id') else partner['id']
ResolvePartnerId(id) ==
    IF res_partner[id].parent_id # 0 THEN res_partner[id].parent_id ELSE id

\* Mutant: only a cancelled order counts as locked.
IsLocked_CancelOnly(state) == state = "cancel"

\* state in ['done', 'cancel']
IsLocked(state) == state \in {"done", "cancel"}

\* ------------------------------------------------------ discount maths
RECURSIVE Gcd(_, _)
Gcd(a, b) == IF b = 0 THEN a ELSE Gcd(b, a % b)

Abs(x) == IF x < 0 THEN -x ELSE x

\* An exact fraction n/d in lowest terms with d > 0.
Frac(n, d) ==
    LET g == Gcd(Abs(n), Abs(d))
        s == IF d < 0 THEN -1 ELSE 1
    IN  [err |-> FALSE, n |-> s * (n \div g), d |-> s * (d \div g)]

ZeroDivisionError == [err |-> TRUE, n |-> 0, d |-> 1]

\* pct = (disc / (price * qty)) * 100 if price > 0 else 0.0
\* Python raises ZeroDivisionError on a float division by 0.0.
DiscountPct(price, qty, total_discount) ==
    IF price > 0
    THEN IF price * qty = 0 THEN ZeroDivisionError
         ELSE Frac(total_discount * 100, price * qty)
    ELSE Frac(0, 1)

\* ------------------------------------------------------- a delivery
Result(ok, msg) == [ok |-> ok, msg |-> msg]
NoResult == Result(FALSE, "")
\* An exception that leaves process_order_data (no except clause matches).
Raised == Result(FALSE, "<exception>")

\* The X-Shopify-Hmac-Sha256 header: base64(HMAC-SHA256(key, body)), taken as
\* a function that is one-to-one in key and body.
Digest(key, body) == [key |-> key, body |-> body]

\* request.headers.get(...) of a request without the header: None.
NoHeader == [key |-> "", body |-> NoData]

\* The arguments of find_or_create_child_address; street and country_code
\* are "" when address_data carries none.
NoAddress == [parent_id |-> 0, type |-> "", street |-> "", country_code |-> ""]

IdleCall ==
    [pc |-> "idle", data |-> NoData, company_id |-> 0,
     existing_order_id |-> 0, partner_id |-> 0, sales_rep_id |-> "",
     i |-> 0, lines |-> <<>>, state |-> "", result |-> NoResult,
     preceding |-> {}, locked_at_entry |-> FALSE,
     n_partner_create |-> 0, n_product_create |-> 0,
     n_order_create |-> 0, n_order_write |-> 0,
     log |-> <<>>, n_log_failed |-> 0, erp_raised |-> "",
     route |-> "", hmac_header |-> NoHeader, http |-> 0,
     cat_id |-> 0, product_id |-> 0, n_categ_create |-> 0, n_categ_write |-> 0,
     address |-> NoAddress, child_id |-> 0, n_child_create |-> 0]

InFlight(c) == calls[c].pc \notin {"idle", "done"}

\* An ERP call succeeds (TRUE) or raises (FALSE).
Outcomes == IF faults < MaxFaults THEN {TRUE, FALSE} ELSE {TRUE}

\* A row of sync_logs (models.py:42-50), without timestamp and message.
Event(entity, status) == [entity |-> entity, status |-> status]

\* Mutant: the write replaces the rows recorded before it.
log_event_Overwrites(writer, entity, status, committed) ==
    IF committed THEN [writer EXCEPT !.log = << Event(entity, status) >>]
    ELSE [writer EXCEPT !.n_log_failed = @ + 1]

\* log_event: add and commit a row; a failed commit is printed and rolled
\* back, and the caller carries on.  `writer' is the call or job that logs:
\* its rows of the ledger are writer.log, in the order of their commits.
log_event(writer, entity, status, committed) ==
    IF committed THEN [writer EXCEPT !.log = Append(@, Event(entity, status))]
    ELSE [writer EXCEPT !.n_log_failed = @ + 1]

\* The step of call c, with its ERP call succeeding or not, that takes the
\* call from `before' to `after': the failures of the step are counted.
Fault(ok, before, after) ==
    LET n == faults + (IF ok THEN 0 ELSE 1)
                    + (after.n_log_failed - before.n_log_failed)
    IN  n <= MaxFaults /\ faults' = n

\* A return or an exception inside the try block: the finally clause is next.
Leave(call, res) == [call EXCEPT !.pc = "finally", !.result = res]

\* History of a delivery, taken at its entry: the deliveries that had
\* already returned, and whether an ERP order with its reference was locked.
Entered(c, data) ==
    [IdleCall EXCEPT
       !.data = data,
       !.preceding = { d \in Calls : calls[d].pc = "done" },
       !.locked_at_entry =
           \E o \in DOMAIN sale_order :
              /\ sale_order[o].client_order_ref = "ONLINE_" \o data.name
              /\ sale_order[o].state \in {"done", "cancel"}]

\* Mutant: the concurrency check never finds the id.
ConcurrentlyActive_Never(shopify_id) == FALSE

\* if shopify_id in active_processing_ids
ConcurrentlyActive(shopify_id) == shopify_id \in active_processing_ids

\* Mutant: the finally clause leaves the id in the registry.
ReleaseId_Keeps(ids, shopify_id) == ids

\* active_processing_ids.remove(shopify_id), guarded by the membership test
ReleaseId(ids, shopify_id) == ids \ {shopify_id}

\* `if not sku: continue`: the next line item carrying a SKU, after item i.
NextSku(items, i) ==
    LET later == { j \in DOMAIN items : j > i /\ items[j].sku # "" }
    IN  IF later = {} THEN Len(items) + 1
        ELSE CHOOSE j \in later : \A k \in later : j <= k

\* Mutant: the empty-lines return is missing.
NoValidLines_Never(lines) == FALSE

\* if not lines: return False, "No valid lines"
NoValidLines(lines) == lines = <<>>

\* Where a delivery stands after line item call.i: the next item with a SKU,
\* or, past the loop, the "no valid lines" return or the create/update branch.
AfterItem(call) ==
    LET j == NextSku(call.data.line_items, call.i)
    IN  IF j <= Len(call.data.line_items)
        THEN [call EXCEPT !.pc = "search_product", !.i = j]
        ELSE IF NoValidLines(call.lines)
        THEN Leave(call, Result(FALSE, "No valid lines"))
        ELSE IF call.existing_order_id # 0
        THEN [call EXCEPT !.pc = "read_state"]
        ELSE [call EXCEPT !.pc = "create_order"]

\* The order line built for the current item and product (app.py:339-351);
\* the discount division raises outside any try block.
AppendLine(call, product_id) ==
    LET item == call.data.line_items[call.i]
        pct == DiscountPct(item.price, item.quantity, item.total_discount)
    IN  IF pct.err THEN Leave(call, Raised)
        ELSE AfterItem([call EXCEPT !.lines = Append(@,
                 [product_id |-> product_id, product_uom_qty |-> item.quantity,
                  price_unit |-> item.price, discount |-> pct])])

\* CustomerMap(shopify_customer_id=..., odoo_partner_id=..., email=...)
CustomerMapRow(c_id, partner_id, email) ==
    [shop_id |-> "NULL", shopify_customer_id |-> c_id,
     odoo_partner_id |-> partner_id, email |-> email]

\* db.session.commit() of a customer_map row: shop_id is nullable=False.
CommitRaises(row) == row.shop_id = "NULL"

\* One step of call c: its record moves to `after', and the failures of the
\* step (the ERP call, ledger writes) are counted.
StepTo(c, ok, after) ==
    /\ calls' = [calls EXCEPT ![c] =
           IF ok THEN after ELSE [after EXCEPT !.erp_raised = calls[c].pc]]
    /\ Fault(ok, calls[c], after)

\* ------------------------------------------------ process_order_data
\* Entry, under order_processing_lock: the concurrency check, then the
\* company lookup (get_config falls back; a failed res.users read is
\* swallowed and leaves company_id None).
EnterOrderData(c, entered) ==
    \E ok \in Outcomes, w \in BOOLEAN :
        IF ConcurrentlyActive(entered.data.id)
        THEN /\ ok
             /\ StepTo(c, ok,
                    [log_event(entered, "Order", "Skipped", w)
                       EXCEPT !.pc = "done", !.result = Result(FALSE, "Skipped")])
             /\ UNCHANGED active_processing_ids
        ELSE /\ w
             /\ active_processing_ids' = active_processing_ids \cup {entered.data.id}
             /\ StepTo(c, ok,
                    [entered EXCEPT !.pc = "search_order",
                        !.company_id = IF ok THEN UserCompany ELSE 0])

\* Deliveries are numbered in the order of their arrival.
Arrives(c) ==
    /\ calls[c].pc = "idle"
    /\ \A d \in Calls : d < c => calls[d].pc # "idle"

\* A call of process_order_data(data).
Begin(c, payloads) ==
    /\ Arrives(c)
    /\ \E data \in payloads : EnterOrderData(c, Entered(c, data))
    /\ UNCHANGED <<sale_order, product_product, res_partner, disc, otherVars>>

\* 2. CHECK EXISTING
SearchOrder(c) ==
    /\ calls[c].pc = "search_order"
    /\ \E ok \in Outcomes :
         IF ~ok
         THEN StepTo(c, ok, Leave(calls[c], Result(FALSE, "Odoo Error")))
         ELSE \E id \in SearchExistingOrder(ClientRef(calls[c].data.name)) :
                StepTo(c, ok, [calls[c] EXCEPT !.pc = "search_partner",
                                               !.existing_order_id = id])
    /\ UNCHANGED <<active_processing_ids, sale_order, product_product, res_partner, disc, otherVars>>

\* 3. Customer Resolution: odoo.search_partner_by_email(email)
SearchPartner(c) ==
    /\ calls[c].pc = "search_partner"
    /\ \E ok \in Outcomes :
         IF ~ok
         THEN StepTo(c, ok, Leave(calls[c], Raised))
         ELSE \E id \in search_partner_by_email(calls[c].data.email) :
                StepTo(c, ok,
                    IF id = 0 THEN [calls[c] EXCEPT !.pc = "create_partner"]
                    ELSE [calls[c] EXCEPT !.pc = "salesperson",
                                          !.partner_id = ResolvePartnerId(id)])
    /\ UNCHANGED <<active_processing_ids, sale_order, product_product, res_partner, disc, otherVars>>

\* name = f"{first_name} {last_name}".strip() or def_address.get('name')
\*        or email
PartnerName(data) ==
    IF data.customer_name # "" THEN data.customer_name
    ELSE IF data.address_name # "" THEN data.address_name
    ELSE data.email

\* res.partner create: the ERP refuses a contact without a name
\* (constraint check_name), and the call raises.
create_partner_refused(vals) == vals.name = ""

\* Create Customer, then the customer_map row (app.py:283-296).
CreatePartner(c) ==
    /\ calls[c].pc = "create_partner"
    /\ \E ok \in Outcomes, w \in BOOLEAN :
         LET call == [calls[c] EXCEPT !.n_partner_create = @ + 1]
             new_id == Len(res_partner) + 1
             row == CustomerMapRow("c_id", new_id, call.data.email)
             logged == log_event(call, "Customer", "Success", w)
             vals == [name |-> PartnerName(call.data),
                      email |-> call.data.email, parent_id |-> 0,
                      user_id |-> ""]
         IN  IF ~ok \/ create_partner_refused(vals)
             THEN /\ StepTo(c, ok, Leave(call, Result(FALSE, "Customer Error")))
                  /\ UNCHANGED res_partner
             ELSE /\ res_partner' = Append(res_partner, vals)
                  /\ StepTo(c, ok,
                         IF call.data.id # "" /\ CommitRaises(row)
                         THEN Leave(logged, Result(FALSE, "Customer Error"))
                         ELSE [logged EXCEPT !.pc = "salesperson",
                                             !.partner_id = new_id])
    /\ UNCHANGED <<active_processing_ids, sale_order, product_product, disc, otherVars>>

\* Salesperson, then into the line loop.
Salesperson(c) ==
    /\ calls[c].pc = "salesperson"
    /\ \E ok \in Outcomes :
         StepTo(c, ok,
             IF ~ok THEN Leave(calls[c], Raised)
             ELSE LET rep == get_partner_salesperson(calls[c].partner_id)
                  IN  AfterItem([calls[c] EXCEPT !.i = 0,
                         !.sales_rep_id = IF rep = "" THEN OdooUid ELSE rep]))
    /\ UNCHANGED <<active_processing_ids, sale_order, product_product, res_partner, disc, otherVars>>

CurrentSku(call) == call.data.line_items[call.i].sku

\* Search Product: odoo.search_product_by_sku(sku, company_id)
SearchProduct(c) ==
    /\ calls[c].pc = "search_product"
    /\ \E ok \in Outcomes :
         IF ~ok
         THEN StepTo(c, ok, Leave(calls[c], Raised))
         ELSE \E id \in search_product_by_sku(CurrentSku(calls[c]), calls[c].company_id) :
                StepTo(c, ok,
                    IF id = 0 THEN [calls[c] EXCEPT !.pc = "check_product"]
                    ELSE AppendLine(calls[c], id))
    /\ UNCHANGED <<active_processing_ids, sale_order, product_product, res_partner, disc, otherVars>>

\* Check Archived: odoo.check_product_exists_by_sku(sku, company_id); an
\* archived product is logged and the item skipped, a missing one is logged
\* and created.
CheckProduct(c) ==
    /\ calls[c].pc = "check_product"
    /\ \E ok \in Outcomes, w \in BOOLEAN :
         IF ~ok
         THEN StepTo(c, ok, Leave(calls[c], Raised))
         ELSE \E id \in check_product_exists_by_sku(CurrentSku(calls[c]), calls[c].company_id) :
                StepTo(c, ok,
                    IF id # 0
                    THEN AfterItem(log_event(calls[c], "Order", "Warning", w))
                    ELSE [log_event(calls[c], "Product", "Info", w)
                            EXCEPT !.pc = "create_product"])
    /\ UNCHANGED <<active_processing_ids, sale_order, product_product, res_partner, disc, otherVars>>

\* The item of a product that could be neither found nor created: the
\* failure is logged (except clause), then the skipped line.
CreationFailed(call, w1, w2) ==
    AfterItem(log_event(log_event(call, "Product", "Error", w1),
                        "Order", "Warning", w2))

\* Create if missing: odoo.create_product(new_p_vals); a failure is caught
\* and logged, and the line is skipped.
CreateProduct(c) ==
    /\ calls[c].pc = "create_product"
    /\ \E ok \in Outcomes, w1, w2 \in BOOLEAN :
         LET call == [calls[c] EXCEPT !.n_product_create = @ + 1]
         IN  IF ~ok
             THEN /\ StepTo(c, ok, CreationFailed(call, w1, w2))
                  /\ UNCHANGED product_product
             ELSE /\ product_product' = Append(product_product,
                         [default_code |-> CurrentSku(call), active |-> TRUE,
                          company_id |-> call.company_id])
                  /\ StepTo(c, ok, [call EXCEPT !.pc = "research_product"])
    /\ UNCHANGED <<active_processing_ids, sale_order, res_partner, disc, otherVars>>

\* product_id = odoo.search_product_by_sku(sku, company_id), still inside
\* the try block of the creation.
ResearchProduct(c) ==
    /\ calls[c].pc = "research_product"
    /\ \E ok \in Outcomes, w1, w2 \in BOOLEAN :
         IF ~ok
         THEN StepTo(c, ok, CreationFailed(calls[c], w1, w2))
         ELSE \E id \in search_product_by_sku(CurrentSku(calls[c]), calls[c].company_id) :
                StepTo(c, ok,
                    IF id = 0
                    THEN AfterItem(log_event(calls[c], "Order", "Warning", w1))
                    ELSE AppendLine(calls[c], id))
    /\ UNCHANGED <<active_processing_ids, sale_order, product_product, res_partner, disc, otherVars>>

\* UPDATE PATH, "Check status first": the sale.order read of the state.
ReadState(c) ==
    /\ calls[c].pc = "read_state"
    /\ \E ok \in Outcomes, w \in BOOLEAN :
         StepTo(c, ok,
             IF ~ok THEN Leave(calls[c], Raised)
             ELSE LET state == sale_order[calls[c].existing_order_id].state
                      call == [calls[c] EXCEPT !.state = state]
                  IN  IF IsLocked(state)
                      THEN Leave(log_event(call, "Order", "Skipped", w),
                                 Result(TRUE, "Skipped"))
                      ELSE [call EXCEPT !.pc = "update_order"])
    /\ UNCHANGED <<active_processing_ids, sale_order, product_product, res_partner, disc, otherVars>>

\* Mutant: the failed write is issued again.
OrderError_Retries(call, res) == [call EXCEPT !.result = res]

\* except Exception as e: ... return False, str(e)
OrderError(call, res) == Leave(call, res)

\* Mutant: the new lines are added to the lines of the order.
UpdateVals_Appends(order, call) ==
    [order EXCEPT !.order_line = @ \o call.lines,
                  !.partner_shipping_id = call.partner_id,
                  !.partner_invoice_id = call.partner_id]

\* update_vals: (5, 0, 0) removes every line, then the new lines are added.
UpdateVals(order, call) ==
    [order EXCEPT !.order_line = call.lines,
                  !.partner_shipping_id = call.partner_id,
                  !.partner_invoice_id = call.partner_id]

\* odoo.update_sale_order(existing_order_id, update_vals)
UpdateOrder(c) ==
    /\ calls[c].pc = "update_order"
    /\ \E ok \in Outcomes, w \in BOOLEAN :
         LET call == [calls[c] EXCEPT !.n_order_write = @ + 1]
         IN  IF ~ok
             THEN /\ StepTo(c, ok, OrderError(log_event(call, "Order", "Error", w),
                                              Result(FALSE, "Update Failed")))
                  /\ UNCHANGED sale_order
             ELSE /\ sale_order' = [sale_order EXCEPT ![call.existing_order_id] =
                         UpdateVals(@, call)]
                  /\ StepTo(c, ok, Leave(log_event(call, "Order", "Success", w),
                                         Result(TRUE, "Updated")))
    /\ UNCHANGED <<active_processing_ids, product_product, res_partner, disc, otherVars>>

\* CREATE PATH: the vals of the new sale.order.
OrderVals(call) ==
    [client_order_ref |-> ClientRef(call.data.name), state |-> "draft",
     partner_id |-> call.partner_id, partner_invoice_id |-> call.partner_id,
     partner_shipping_id |-> call.partner_id, order_line |-> call.lines,
     user_id |-> call.sales_rep_id]

\* What the ERP gives a new sale.order for the fields the vals leave out:
\* no note, and no message of the connector in its activity log.
SaleOrderDefaults == [note |-> "", message_ids |-> <<>>]

\* odoo.create_sale_order(vals, ...): the record the ERP creates.
create_sale_order(vals) == vals @@ SaleOrderDefaults

\* odoo.create_sale_order(vals, context={'manual_price': True})
CreateOrder(c) ==
    /\ calls[c].pc = "create_order"
    /\ \E ok \in Outcomes, w \in BOOLEAN :
         LET call == [calls[c] EXCEPT !.n_order_create = @ + 1]
         IN  IF ~ok
             THEN /\ StepTo(c, ok, OrderError(log_event(call, "Order", "Error", w),
                                              Result(FALSE, "Create Failed")))
                  /\ UNCHANGED sale_order
             ELSE /\ sale_order' = Append(sale_order,
                                           create_sale_order(OrderVals(call)))
                  /\ StepTo(c, ok, Leave(log_event(call, "Order", "Success", w),
                                         Result(TRUE, "Synced")))
    /\ UNCHANGED <<active_processing_ids, product_product, res_partner, disc, otherVars>>

\* finally: ALWAYS release the lock for this ID
Finally(c) ==
    /\ calls[c].pc = "finally"
    /\ active_processing_ids' = ReleaseId(active_processing_ids, calls[c].data.id)
    /\ calls' = [calls EXCEPT ![c].pc = "done"]
    /\ UNCHANGED <<sale_order, product_product, res_partner, faults, disc, otherVars>>

\* ------------------------------------------------------ the ERP's users
\* The ERP advances an order on its own: a quotation is confirmed, a
\* confirmed order is locked, an open order is cancelled.
ErpTransitions == { <<"draft", "sale">>, <<"sale", "done">>,
                    <<"draft", "cancel">>, <<"sale", "cancel">> }

ErpAdvance ==
    /\ \E o \in DOMAIN sale_order, t \in ErpTransitions :
         /\ sale_order[o].state = t[1]
         /\ sale_order' = [sale_order EXCEPT ![o].state = t[2]]
    /\ UNCHANGED <<active_processing_ids, product_product, res_partner, calls, faults, disc, otherVars>>

\* ------------------------------------------------------------ webhooks
\* The secret of the storefront's webhook signatures, when one is set.
TheSecret == "shpss_secret"

\* What a request can carry as its signature: nothing, the digest of its body
\* under the storefront's secret, or a digest under another key.
Headers(data) == { NoHeader, Digest(TheSecret, data), Digest("forged", data) }

\* Mutant: a request without the header passes.
verify_shopify_MissingPasses(data, hmac_header) ==
    IF SHOPIFY_SECRET = "" THEN TRUE
    ELSE IF hmac_header = NoHeader THEN TRUE
    ELSE Digest(SHOPIFY_SECRET, data) = hmac_header

\* verify_shopify(data, hmac_header)
verify_shopify(data, hmac_header) ==
    IF SHOPIFY_SECRET = "" THEN TRUE
    ELSE IF hmac_header = NoHeader THEN FALSE
    ELSE Digest(SHOPIFY_SECRET, data) = hmac_header

\* Order webhooks carry one order number, with or without shipping lines.
WebItemPool == { Item("X1", 10, 2, 4), Item("NEW", 0, 1, 0) }

WebPayloads ==
    Payloads({"5001"}, {"#1001"}, Emails,
             ItemLists(WebItemPool, 1) \ {<<>>}, ShippingLists)

\* Cancellation webhooks name the order.
CancelPayloads ==
    Payloads({"5001"}, {"#1001"}, {"a@b.com"}, { << Item("X1", 10, 2, 4) >> },
             NoShipping)

\* Product webhooks: the product type and the SKUs of the variants.
ProductPayloads ==
    [product_type : {"", "Shoes"}, variants : { <<"X1">>, <<"ARC", "X1">> }]

Request(entered, route, hmac_header) ==
    [entered EXCEPT !.route = route, !.hmac_header = hmac_header]

\* return "Unauthorized", 401
Unauthorized(request) == [request EXCEPT !.pc = "done", !.http = 401]

\* POST /webhook/orders and /webhook/orders/updated, up to the entry of
\* process_order_data.
order_webhook(c) ==
    /\ Arrives(c)
    /\ \E data \in WebPayloads : \E hmac_header \in Headers(data) :
         LET request == Request(Entered(c, data), "/webhook/orders", hmac_header)
         IN  IF ~verify_shopify(data, hmac_header)
             THEN /\ calls' = [calls EXCEPT ![c] = Unauthorized(request)]
                  /\ UNCHANGED <<active_processing_ids, faults>>
             ELSE EnterOrderData(c, request)
    /\ UNCHANGED <<sale_order, product_product, res_partner, disc, otherVars>>

\* POST /webhook/orders/cancelled: return "Received", 200
order_cancelled_webhook(c) ==
    /\ Arrives(c)
    /\ \E data \in CancelPayloads : \E hmac_header \in Headers(data) :
         calls' = [calls EXCEPT ![c] =
             [Request(Entered(c, data), "/webhook/orders/cancelled", hmac_header)
                EXCEPT !.pc = "done", !.http = 200]]
    /\ UNCHANGED <<active_processing_ids, sale_order, product_product,
                   res_partner, faults, disc, otherVars>>

\* `if not sku: continue`: the next variant carrying a SKU, after variant i.
NextVariant(call) ==
    LET variants == call.data.variants
        later == { j \in DOMAIN variants : j > call.i /\ variants[j] # "" }
    IN  IF later = {} THEN [call EXCEPT !.pc = "done", !.i = Len(variants) + 1]
        ELSE [call EXCEPT !.pc = "variant_search",
                          !.i = CHOOSE j \in later : \A k \in later : j <= k]

\* POST /webhook/products/create and /update, up to the first ERP call of
\* process_product_data.
product_webhook(c) ==
    /\ Arrives(c)
    /\ \E data \in ProductPayloads : \E hmac_header \in Headers(data) :
         LET entered == [IdleCall EXCEPT !.data = data,
                            !.preceding = { d \in Calls : calls[d].pc = "done" }]
             request == Request(entered, "/webhook/products", hmac_header)
         IN  calls' = [calls EXCEPT ![c] =
                 IF ~verify_shopify(data, hmac_header) THEN Unauthorized(request)
                 ELSE IF data.product_type # ""
                 THEN [request EXCEPT !.pc = "categ_search"]
                 ELSE NextVariant([request EXCEPT !.i = 0])]
    /\ UNCHANGED <<active_processing_ids, sale_order, product_product,
                   res_partner, faults, disc, otherVars>>

\* product.public.category search on the name.
SearchCategory(name) ==
    FirstOf({ k \in DOMAIN product_public_category :
                product_public_category[k] = name })

webFrame ==
    <<active_processing_ids, sale_order, product_product, res_partner, disc,
      SHOPIFY_SECRET, qty_available, shopify_products, master_sync,
      inventory_sync, app_settings, customer_sync, res_partner_child,
      duplicate_scan, inventory_schedule>>

\* 1. Resolve Category ID: the search; a failure is printed and cat_id
\* stays None.
CategorySearch(c) ==
    /\ calls[c].pc = "categ_search"
    /\ \E ok \in Outcomes :
         IF ~ok
         THEN StepTo(c, ok, NextVariant([calls[c] EXCEPT !.i = 0]))
         ELSE \E id \in SearchCategory(calls[c].data.product_type) :
                StepTo(c, ok,
                    IF id = 0 THEN [calls[c] EXCEPT !.pc = "categ_create"]
                    ELSE NextVariant([calls[c] EXCEPT !.i = 0, !.cat_id = id]))
    /\ UNCHANGED <<product_public_category, product_categ_rel, webFrame>>

\* ... and the create of a category that does not exist.
CategoryCreate(c) ==
    /\ calls[c].pc = "categ_create"
    /\ \E ok \in Outcomes :
         LET call == [calls[c] EXCEPT !.i = 0, !.n_categ_create = @ + 1]
         IN  IF ~ok
             THEN /\ StepTo(c, ok, NextVariant(call))
                  /\ UNCHANGED product_public_category
             ELSE /\ product_public_category' =
                         Append(product_public_category, call.data.product_type)
                  /\ StepTo(c, ok, NextVariant(
                         [call EXCEPT !.cat_id = Len(product_public_category) + 1]))
    /\ UNCHANGED <<product_categ_rel, webFrame>>

\* 2. Iterate Variants: odoo.search_product_by_sku(sku, company_id), outside
\* any try block, with the company of get_config (None).
VariantSearch(c) ==
    /\ calls[c].pc = "variant_search"
    /\ \E ok \in Outcomes :
         IF ~ok
         THEN StepTo(c, ok, [calls[c] EXCEPT !.pc = "done", !.result = Raised])
         ELSE \E id \in search_product_by_sku(calls[c].data.variants[calls[c].i], 0) :
                StepTo(c, ok,
                    IF id # 0 /\ calls[c].cat_id # 0
                    THEN [calls[c] EXCEPT !.pc = "categ_read", !.product_id = id]
                    ELSE NextVariant(calls[c]))
    /\ UNCHANGED <<product_public_category, product_categ_rel, webFrame>>

\* The read of public_categ_ids, "to avoid redundant writes".
CategoryRead(c) ==
    /\ calls[c].pc = "categ_read"
    /\ \E ok \in Outcomes :
         StepTo(c, ok,
             IF ok /\ <<calls[c].product_id, calls[c].cat_id>> \notin product_categ_rel
             THEN [calls[c] EXCEPT !.pc = "categ_write"]
             ELSE NextVariant(calls[c]))
    /\ UNCHANGED <<product_public_category, product_categ_rel, webFrame>>

\* The write {'public_categ_ids': [(4, cat_id)]} and its ledger row.
CategoryWrite(c) ==
    /\ calls[c].pc = "categ_write"
    /\ \E ok \in Outcomes, w \in BOOLEAN :
         LET call == [calls[c] EXCEPT !.n_categ_write = @ + 1]
         IN  IF ~ok
             THEN /\ StepTo(c, ok, NextVariant(call))
                  /\ UNCHANGED product_categ_rel
             ELSE /\ product_categ_rel' = product_categ_rel \cup
                         { <<call.product_id, call.cat_id>> }
                  /\ StepTo(c, ok,
                         NextVariant(log_event(call, "Product", "Info", w)))
    /\ UNCHANGED <<product_public_category, webFrame>>

\* The handler's return: "Received", 200; an exception that left the handler
\* is answered by the framework with 500.
Respond(c) ==
    /\ calls[c].route # ""
    /\ calls[c].pc = "done"
    /\ calls[c].http = 0
    /\ calls' = [calls EXCEPT ![c].http =
           IF calls[c].result = Raised THEN 500 ELSE 200]
    /\ UNCHANGED <<active_processing_ids, sale_order, product_product,
                   res_partner, faults, disc, otherVars>>

\* ------------------------------------------------- sync_products_master
\* A storefront product with its first variant: the SKU ("" when the variant
\* has none), the status and the stock of the variant.
ShopProduct(sku, status) ==
    [sku |-> sku, status |-> status, inventory_quantity |-> 0]

\* Storefront catalogs a pass can meet: products of the ERP-active SKUs, of
\* an ERP-archived SKU and of a SKU the ERP does not know, active or archived.
ShopCatalogs ==
    UNION { [1..n -> { ShopProduct(sku, status) :
                         sku \in {"X1", "FGN", "ARC", "ZZ"},
                         status \in {"active", "archived"} }] :
            n \in 0..MaxShopProducts }

\* p.get('qty_available', 0)
QtyAvailable(p) == IF p \in DOMAIN qty_available THEN qty_available[p] ELSE 0

\* odoo.get_all_products(company_id) with the company of get_config (None):
\* every product with a default_code, active or archived, in id order.
get_all_products ==
    [ k \in 1..Len(product_product) |-> k ]

\* find_shopify_product_by_sku(sku): the product of the first variant the
\* storefront returns for the SKU; None when none matches, and also when the
\* query fails (the exception is printed inside).
find_shopify_product_by_sku(sku, ok) ==
    IF ok THEN FirstOf({ s \in DOMAIN shopify_products :
                            shopify_products[s].sku = sku })
    ELSE {0}

IdleMasterSync ==
    [pc |-> "idle", odoo_products |-> <<>>, k |-> 0, active_odoo_skus |-> {},
     shopify_id |-> 0, synced |-> 0, listed |-> FALSE, j |-> 0,
     seen_skus |-> {}, examined |-> {}, archived_count |-> 0,
     shopify_writes |-> {},
     result |-> NoResult, log |-> <<>>, n_log_failed |-> 0]

\* The storefront writes the pass has issued, by kind: sp.save(),
\* variant.save() and shopify.InventoryLevel.set(...).
Wrote(m, kind) == [m EXCEPT !.shopify_writes = @ \cup {kind}]

\* One step of the pass: its record moves to `after', and the failures of
\* the step (an ERP or storefront call, ledger writes) are counted.
MasterStep(ok, after) ==
    /\ master_sync' = after
    /\ Fault(ok, master_sync, after)

\* The top of `for p in odoo_products', from product k on: an archived
\* product goes to the archive branch, an active one adds its SKU to
\* active_odoo_skus; past the last product the cleanup phase begins.
NextProduct(m, k) ==
    IF k > Len(m.odoo_products)
    THEN [m EXCEPT !.pc = "cleanup_list", !.k = k]
    ELSE LET p == product_product[m.odoo_products[k]]
         IN  IF ~p.active
             THEN [m EXCEPT !.pc = "archive_find", !.k = k]
             ELSE [m EXCEPT !.pc = "find", !.k = k,
                            !.active_odoo_skus = @ \cup {p.default_code}]

MasterSku(m) == product_product[m.odoo_products[m.k]].default_code

masterFrame ==
    <<active_processing_ids, sale_order, product_product, res_partner, calls,
      disc, SHOPIFY_SECRET, product_public_category, product_categ_rel,
      qty_available, inventory_sync, app_settings, customer_sync,
      res_partner_child, duplicate_scan, inventory_schedule>>

\* The start of the pass: odoo.get_all_products, outside any try block, and
\* the 'Found n products' row.
StartMasterSync ==
    /\ master_sync.pc = "idle"
    /\ \E ok \in Outcomes, w \in BOOLEAN :
         MasterStep(ok,
             IF ~ok THEN [master_sync EXCEPT !.pc = "done", !.result = Raised]
             ELSE NextProduct(
                      log_event([master_sync EXCEPT !.odoo_products = get_all_products],
                                "Product Sync", "Info", w), 1))
    /\ UNCHANGED <<shopify_products, masterFrame>>

\* HANDLE ARCHIVED IN ODOO: the storefront lookup.
ArchiveFind ==
    /\ master_sync.pc = "archive_find"
    /\ \E ok \in Outcomes :
         \E id \in find_shopify_product_by_sku(MasterSku(master_sync), ok) :
            MasterStep(ok,
                IF id = 0 THEN NextProduct(master_sync, master_sync.k + 1)
                ELSE [master_sync EXCEPT !.pc = "archive_save", !.shopify_id = id])
    /\ UNCHANGED <<shopify_products, masterFrame>>

\* ... and Product.find / sp.save() inside `try: ... except: pass'.
ArchiveSave ==
    /\ master_sync.pc = "archive_save"
    /\ \E ok \in Outcomes, w \in BOOLEAN :
         LET id == master_sync.shopify_id
             next == NextProduct(master_sync, master_sync.k + 1)
         IN  IF ok /\ shopify_products[id].status # "archived"
             THEN /\ shopify_products' =
                        [shopify_products EXCEPT ![id].status = "archived"]
                  /\ MasterStep(ok, log_event(Wrote(next, "product_save"),
                                               "Product Sync", "Info", w))
             ELSE /\ UNCHANGED shopify_products
                  /\ MasterStep(ok, next)
    /\ UNCHANGED masterFrame

\* ACTIVE PRODUCT SYNC: the storefront lookup, before the try block.
Find ==
    /\ master_sync.pc = "find"
    /\ \E ok \in Outcomes :
         \E id \in find_shopify_product_by_sku(MasterSku(master_sync), ok) :
            MasterStep(ok, [master_sync EXCEPT !.pc = "save", !.shopify_id = id])
    /\ UNCHANGED <<shopify_products, masterFrame>>

\* except Exception as e: log_event('Product Sync', 'Error', ...) and on to
\* the next product.
ProductFailed(m, w) ==
    NextProduct(log_event(m, "Product Sync", "Error", w), m.k + 1)

\* product_changed of a found product: its status is not 'active' (title,
\* description, category and vendor are taken as equal to the ERP's).
product_changed(sp) == sp.status # "active"

\* Product.find(shopify_id) or Product(), the field updates and sp.save()
\* under `if product_changed or not shopify_id': a found product that is not
\* active is made active, a new one is created with its default variant,
\* which has no SKU yet.
Save ==
    /\ master_sync.pc = "save"
    /\ \E ok \in Outcomes, w \in BOOLEAN :
         LET id == master_sync.shopify_id
         IN  IF ~ok
             THEN /\ MasterStep(ok, ProductFailed(master_sync, w))
                  /\ UNCHANGED shopify_products
             ELSE IF id # 0
             THEN /\ shopify_products' =
                        [shopify_products EXCEPT ![id].status = "active"]
                  /\ MasterStep(ok,
                        IF product_changed(shopify_products[id])
                        THEN Wrote([master_sync EXCEPT !.pc = "extras"], "product_save")
                        ELSE [master_sync EXCEPT !.pc = "extras"])
             ELSE /\ shopify_products' =
                        Append(shopify_products, ShopProduct("", "active"))
                  /\ MasterStep(ok,
                        Wrote([master_sync EXCEPT !.pc = "variant",
                                 !.shopify_id = Len(shopify_products) + 1],
                              "product_save"))
    /\ UNCHANGED masterFrame

\* Variant Logic of a new product: variant.sku = sku and variant.save().
Variant ==
    /\ master_sync.pc = "variant"
    /\ \E ok \in Outcomes, w \in BOOLEAN :
         IF ~ok
         THEN /\ MasterStep(ok, ProductFailed(master_sync, w))
              /\ UNCHANGED shopify_products
         ELSE /\ shopify_products' =
                    [shopify_products EXCEPT ![master_sync.shopify_id].sku =
                        MasterSku(master_sync)]
              /\ MasterStep(ok, Wrote([master_sync EXCEPT !.pc = "extras"],
                                       "variant_save"))
    /\ UNCHANGED masterFrame

\* Inventory Sync, Image Sync and Metafield Sync: the stock of the variant is
\* set from qty_available by shopify.InventoryLevel.set, which no comparison
\* with the storefront's quantity guards; a failure of the image or vendor-code calls that
\* follow is caught by the except clause of the product.
Extras ==
    /\ master_sync.pc = "extras"
    /\ \E ok \in Outcomes, w \in BOOLEAN :
         /\ shopify_products' =
               [shopify_products EXCEPT ![master_sync.shopify_id].inventory_quantity =
                   QtyAvailable(master_sync.odoo_products[master_sync.k])]
         /\ MasterStep(ok,
               IF ~ok THEN ProductFailed(Wrote(master_sync, "inventory_set"), w)
               ELSE NextProduct([Wrote(master_sync, "inventory_set")
                                   EXCEPT !.synced = @ + 1],
                                master_sync.k + 1))
    /\ UNCHANGED masterFrame

\* cleanup_shopify_products: shopify.Product.find(limit=250), before the try
\* block of the scan.
CleanupList ==
    /\ master_sync.pc = "cleanup_list"
    /\ \E ok \in Outcomes :
         MasterStep(ok,
             IF ~ok THEN [master_sync EXCEPT !.pc = "done", !.result = Raised]
             ELSE [master_sync EXCEPT !.pc = "cleanup", !.listed = TRUE, !.j = 1])
    /\ UNCHANGED <<shopify_products, masterFrame>>

\* Check 1: Orphan (Not in Odoo Active List)
IsOrphan(sku, odoo_active_skus) == sku \notin odoo_active_skus

\* Check 2: Duplicate (Already seen in this scan)
IsDuplicate(sku, seen_skus) == sku \in seen_skus

\* The scan from product j on, past the products without a SKU.
ScanFrom(m, j) ==
    LET rest == { i \in j..Len(shopify_products) : shopify_products[i].sku # "" }
        skipped == { i \in j..Len(shopify_products) :
                       \A r \in rest : i < r }
    IN  IF rest = {}
        THEN [m EXCEPT !.pc = "cleanup_end", !.j = Len(shopify_products) + 1,
                       !.examined = @ \cup (j..Len(shopify_products))]
        ELSE [m EXCEPT !.j = CHOOSE r \in rest : \A q \in rest : r <= q,
                       !.examined = @ \cup skipped]

\* One product of the scan: an orphan or a duplicate is archived (sp.save()),
\* any other SKU is remembered; an exception ends the whole scan, as the try
\* block encloses the loop.
Cleanup ==
    /\ master_sync.pc = "cleanup"
    /\ \E ok \in Outcomes, w \in BOOLEAN :
         LET j == master_sync.j
             sp == shopify_products[j]
             m == [master_sync EXCEPT !.examined = @ \cup {j}]
             needs_archive == \/ IsOrphan(sp.sku, m.active_odoo_skus)
                              \/ IsDuplicate(sp.sku, m.seen_skus)
             logged == log_event(m, "System", "Info", w)
         IN  IF j > Len(shopify_products) \/ sp.sku = ""
             THEN /\ ok /\ w
                  /\ MasterStep(ok, ScanFrom(master_sync, j))
                  /\ UNCHANGED shopify_products
             ELSE IF ~needs_archive
             THEN /\ ok /\ w
                  /\ MasterStep(ok, ScanFrom([m EXCEPT !.seen_skus = @ \cup {sp.sku}], j + 1))
                  /\ UNCHANGED shopify_products
             ELSE IF sp.status = "archived"
             THEN /\ ok
                  /\ MasterStep(ok, ScanFrom(logged, j + 1))
                  /\ UNCHANGED shopify_products
             ELSE IF ~ok
             THEN /\ MasterStep(ok, [logged EXCEPT !.pc = "cleanup_end"])
                  /\ UNCHANGED shopify_products
             ELSE /\ shopify_products' =
                        [shopify_products EXCEPT ![j].status = "archived"]
                  /\ MasterStep(ok, ScanFrom(Wrote([logged EXCEPT !.archived_count = @ + 1],
                                                    "product_save"), j + 1))
    /\ UNCHANGED masterFrame

\* The end of the cleanup and of the pass: 'Cleanup Complete' when something
\* was archived, then 'Master Sync Complete'.
CleanupEnd ==
    /\ master_sync.pc = "cleanup_end"
    /\ \E w1, w2 \in BOOLEAN :
         LET m == IF master_sync.archived_count > 0
                  THEN log_event(master_sync, "System", "Success", w1)
                  ELSE master_sync
         IN  MasterStep(TRUE,
                 [log_event(m, "Product Sync", "Success", w2)
                    EXCEPT !.pc = "done", !.result = Result(TRUE, "Complete")])
    /\ UNCHANGED <<shopify_products, masterFrame>>

\* ---------------------------------------------- archive_shopify_duplicates
\* shopify.Variant.find(limit=250): every storefront product carries one
\* variant, whose id grows with the position of the product; the variants
\* that carry a SKU.
VariantsWithSku == { s \in DOMAIN shopify_products : shopify_products[s].sku # "" }

\* sku_map[sku]: the variants of a SKU.
sku_map(sku) == { s \in VariantsWithSku : shopify_products[s].sku = sku }

\* var_list.sort(key=lambda x: x.id, reverse=True); var_list[1:] -- every
\* variant of the SKU but the one with the greatest id.
var_list_tail(sku) ==
    { s \in sku_map(sku) : \E t \in sku_map(sku) : t > s }

\* The variants whose products the scan archives.
Duplicates ==
    UNION { var_list_tail(shopify_products[s].sku) : s \in VariantsWithSku }

\* The order of the two loops: the SKUs as the listing first shows them,
\* the variants of a SKU by decreasing id.
ScansBefore(s, t) ==
    LET first(u) == CHOOSE a \in sku_map(shopify_products[u].sku) :
                       \A b \in sku_map(shopify_products[u].sku) : a <= b
    IN  \/ first(s) < first(t)
        \/ first(s) = first(t) /\ s >= t

IdleDuplicateScan ==
    [pc |-> "idle", todo |-> {}, count |-> 0, archived |-> {},
     result |-> NoResult, log |-> <<>>, n_log_failed |-> 0]

duplicateFrame ==
    <<active_processing_ids, sale_order, product_product, res_partner, calls,
      disc, SHOPIFY_SECRET, product_public_category, product_categ_rel,
      qty_available, master_sync, inventory_sync, app_settings, customer_sync,
      res_partner_child, inventory_schedule>>

\* One step of the scan, with the failures it counts.
DuplicateStep(ok, after) ==
    /\ duplicate_scan' = after
    /\ Fault(ok, duplicate_scan, after)

\* Where the scan stands with the variants `todo' left to archive.
ScanLeft(scan, todo) ==
    [scan EXCEPT !.todo = todo, !.pc = IF todo = {} THEN "end" ELSE "archive"]

\* 'Starting Scan...', then shopify.Variant.find, outside any try block, and
\* the grouping by SKU.
StartDuplicateScan ==
    /\ duplicate_scan.pc = "idle"
    /\ \E ok \in Outcomes, w \in BOOLEAN :
         LET logged == log_event(duplicate_scan, "Duplicate Scan", "Info", w)
         IN  DuplicateStep(ok,
                 IF ~ok THEN [logged EXCEPT !.pc = "done", !.result = Raised]
                 ELSE ScanLeft(logged, Duplicates))
    /\ UNCHANGED <<shopify_products, duplicateFrame>>

\* prod = shopify.Product.find(dup.product_id); prod.status = 'archived';
\* prod.save(); a failure is printed and the scan goes on.
ArchiveDuplicate ==
    /\ duplicate_scan.pc = "archive"
    /\ \E ok \in Outcomes :
         LET dup == CHOOSE s \in duplicate_scan.todo :
                       \A t \in duplicate_scan.todo : ScansBefore(s, t)
             left == ScanLeft(duplicate_scan, duplicate_scan.todo \ {dup})
         IN  IF ~ok
             THEN /\ DuplicateStep(ok, left)
                  /\ UNCHANGED shopify_products
             ELSE /\ shopify_products' =
                        [shopify_products EXCEPT ![dup].status = "archived"]
                  /\ DuplicateStep(ok, [left EXCEPT !.count = @ + 1,
                                                    !.archived = @ \cup {dup}])
    /\ UNCHANGED duplicateFrame

\* The closing row: 'Clean!' or 'Archived n duplicate products.'
DuplicateScanEnd ==
    /\ duplicate_scan.pc = "end"
    /\ \E w \in BOOLEAN :
         DuplicateStep(TRUE,
             [log_event(duplicate_scan, "Duplicate Scan", "Success", w)
                EXCEPT !.pc = "done", !.result = Result(TRUE, "Scanned")])
    /\ UNCHANGED <<shopify_products, duplicateFrame>>

\* ------------------------------------------------------------- settings
\* A row of app_settings as set_config builds it: AppSetting(key=key) with
\* its value, and no shop_id.
AppSetting(id, key, value) ==
    [id |-> id, shop_id |-> "NULL", key |-> key, value |-> value]

\* AppSetting.query.get(ident): the row whose primary key `id' is ident.
\* The callers pass the name of the setting, which is no id of any row.
QueryGet(ident) == { setting \in app_settings : setting.id = ident }

\* Mutant: the switch of the customer pass reads as enabled without a row.
get_config_Enabled(key, default) ==
    LET found == QueryGet(key)
    IN  IF found # {} THEN (CHOOSE setting \in found : TRUE).value
        ELSE IF key = "cust_auto_sync" THEN TRUE ELSE default

\* get_config(key, default): without a row, setting.value raises and the
\* outer except clause returns the default.
get_config(key, default) ==
    LET found == QueryGet(key)
    IN  IF found = {} THEN default ELSE (CHOOSE setting \in found : TRUE).value

\* set_config(key, value): the table after the call.  A row that is not
\* found is added and committed; the commit of a row without shop_id
\* (nullable=False) raises, and the except clause returns False.
set_config(key, value) ==
    LET found == QueryGet(key)
        setting == AppSetting("new", key, value)
    IN  IF found # {}
        THEN (app_settings \ found)
                \cup { [old EXCEPT !.value = value] : old \in found }
        ELSE IF CommitRaises(setting) THEN app_settings
        ELSE app_settings \cup {setting}

\* ------------------------------------------------ sync_customers_master
IdleCustomerSync ==
    [pc |-> "idle", cust_auto_sync |-> FALSE, result |-> NoResult,
     log |-> <<>>, n_log_failed |-> 0]

\* The pass: without cust_auto_sync it logs 'Auto sync disabled.' and
\* returns; with it, the changed customers are pushed to the storefront and
\* the time of the pass is stored under 'cust_last_sync'.
sync_customers_master ==
    /\ customer_sync.pc = "idle"
    /\ \E w \in BOOLEAN :
         LET cust_auto_sync == get_config("cust_auto_sync", FALSE)
             read == [customer_sync EXCEPT !.cust_auto_sync = cust_auto_sync]
             after ==
                 IF cust_auto_sync # TRUE
                 THEN [log_event(read, "Customer Sync", "Skipped", w)
                         EXCEPT !.pc = "done",
                                !.result = Result(FALSE, "Auto sync disabled")]
                 ELSE [log_event(read, "Customer Sync", "Success", w)
                         EXCEPT !.pc = "done",
                                !.result = Result(TRUE, "Complete")]
         IN  /\ customer_sync' = after
             /\ Fault(TRUE, customer_sync, after)
             /\ app_settings' =
                   IF cust_auto_sync # TRUE THEN app_settings
                   ELSE set_config("cust_last_sync", "current_time_str")
    /\ UNCHANGED <<active_processing_ids, sale_order, product_product,
                   res_partner, calls, disc, SHOPIFY_SECRET,
                   product_public_category, product_categ_rel, qty_available,
                   shopify_products, master_sync, inventory_sync,
                   res_partner_child, duplicate_scan, inventory_schedule>>

\* POST /api/settings/save: return jsonify({"message": "Saved"})
api_save_settings(c) ==
    /\ Arrives(c)
    /\ calls' = [calls EXCEPT ![c] =
           [IdleCall EXCEPT !.route = "/api/settings/save",
                            !.pc = "done", !.http = 200]]
    /\ UNCHANGED <<active_processing_ids, sale_order, product_product,
                   res_partner, faults, disc, otherVars>>

\* ------------------------------------------------ perform_inventory_sync

\* The stock of a product at one location of the ERP; the connector's
\* warehouse holds all of it.
LocationQty(p, loc) == IF loc = 1 THEN QtyAvailable(p) ELSE 0

RECURSIVE get_total_qty_for_locations(_, _)
\* odoo.get_total_qty_for_locations: one read per location, summed.
get_total_qty_for_locations(product_id, location_ids) ==
    IF location_ids = <<>> THEN 0
    ELSE LocationQty(product_id, Head(location_ids))
         + get_total_qty_for_locations(product_id, Tail(location_ids))

\* odoo.get_changed_products(time_limit_str, company_id): the ids, in id
\* order, of the products written inside the lookback window (any subset),
\* active or archived, of the company or of none.
get_changed_products(company_id) ==
    { ids \in UNION { [1..n -> DOMAIN product_product] :
                        n \in 0..Len(product_product) } :
        /\ \A a, b \in DOMAIN ids : a < b => ids[a] < ids[b]
        /\ \A a \in DOMAIN ids :
              CompanyClause(product_product[ids[a]], company_id) }

\* get_shopify_variant_inv_by_sku(sku): the first variant the storefront
\* returns for the SKU (productVariants(first: 1, ...)), the same one for the
\* same query while the storefront is unchanged; None when none matches, and
\* also when the query fails (the exception is printed inside).
get_shopify_variant_inv_by_sku(sku, ok) ==
    LET found == { s \in DOMAIN shopify_products :
                     shopify_products[s].sku = sku }
    IN  IF ok /\ found # {}
        THEN { CHOOSE s \in found : \A t \in found : s <= t }
        ELSE {0}

\* Mutant: every variant found is pushed.
Differs_Always(qty, total_odoo) == TRUE

\* if int(shopify_info['qty']) != total_odoo
Differs(qty, total_odoo) == qty # total_odoo

\* Storefront catalogs an inventory pass can meet: active products of known
\* and unknown SKUs with a stock of 0..MaxStock.
StockCatalogs ==
    UNION { [1..n -> { [ShopProduct(sku, "active") EXCEPT !.inventory_quantity = q] :
                         sku \in {"X1", "ARC", "FGN"}, q \in 0..MaxStock }] :
            n \in 0..MaxShopProducts }

IdleInventorySync ==
    [pc |-> "idle", target_locations |-> <<>>, sync_zero |-> FALSE,
     company_id |-> 0, fetched |-> FALSE, product_ids |-> <<>>, k |-> 0,
     total_odoo |-> 0, shopify_info |-> 0, count |-> 0, updates |-> 0,
     zero_skipped |-> {}, looked_up |-> {}, pushed |-> {},
     result |-> NoResult, log |-> <<>>, n_log_failed |-> 0,
     run |-> 1, last_ids |-> {}]

\* One step of the pass: its record moves to `after', and the failures of
\* the step (an ERP or storefront call, ledger writes) are counted.
InventoryStep(ok, after) ==
    /\ inventory_sync' = after
    /\ Fault(ok, inventory_sync, after)

inventoryFrame ==
    <<active_processing_ids, sale_order, product_product, res_partner, calls,
      disc, SHOPIFY_SECRET, product_public_category, product_categ_rel,
      qty_available, master_sync, app_settings, customer_sync,
      res_partner_child, duplicate_scan, inventory_schedule>>

\* The top of `for p_id in product_ids', at product k; past the last
\* product the function returns count, updates.
NextChanged(i, k) ==
    IF k > Len(i.product_ids)
    THEN [i EXCEPT !.pc = "done", !.k = k, !.result = Result(TRUE, "Returned")]
    ELSE [i EXCEPT !.pc = "quantity", !.k = k]

\* The settings and the company: get_config four times, then the res.users
\* read when no company is configured; its failure is swallowed.
StartInventorySync ==
    /\ inventory_sync.pc = "idle"
    /\ \E ok \in Outcomes :
         LET company_id == get_config("odoo_company_id", 0)
         IN  InventoryStep(ok,
                 [inventory_sync EXCEPT
                    !.pc = "changed",
                    !.target_locations = get_config("inventory_locations", <<>>),
                    !.sync_zero = get_config("sync_zero_stock", FALSE),
                    !.company_id = IF company_id # 0 THEN company_id
                                   ELSE IF ok THEN UserCompany ELSE 0])
    /\ UNCHANGED <<shopify_products, inventoryFrame>>

\* product_ids = odoo.get_changed_products(...); on a failure the function
\* returns 0, 0.
ChangedProducts ==
    /\ inventory_sync.pc = "changed"
    /\ \E ok \in Outcomes :
         IF ~ok
         THEN InventoryStep(ok, [inventory_sync EXCEPT
                                   !.pc = "done",
                                   !.result = Result(TRUE, "Returned")])
         ELSE \E ids \in get_changed_products(inventory_sync.company_id) :
                InventoryStep(ok, NextChanged([inventory_sync EXCEPT
                                                 !.fetched = TRUE,
                                                 !.product_ids = ids], 1))
    /\ UNCHANGED <<shopify_products, inventoryFrame>>

\* Get Odoo Total, outside any try block, and the zero-stock test. The
\* reads are one per location: none is made for an empty location list.
Quantity ==
    /\ inventory_sync.pc = "quantity"
    /\ LET i == inventory_sync
           p_id == i.product_ids[i.k]
       IN  \E ok \in (IF i.target_locations = <<>> THEN {TRUE} ELSE Outcomes) :
             LET total_odoo == get_total_qty_for_locations(p_id, i.target_locations)
             IN  InventoryStep(ok,
                   IF ~ok THEN [i EXCEPT !.pc = "done", !.result = Raised]
                   ELSE IF i.sync_zero /\ total_odoo <= 0
                   THEN NextChanged([i EXCEPT !.zero_skipped = @ \cup {p_id}],
                                    i.k + 1)
                   ELSE [i EXCEPT !.pc = "sku_read", !.total_odoo = total_odoo])
    /\ UNCHANGED <<shopify_products, inventoryFrame>>

\* p_data = ... 'product.product', 'read', [p_id], outside any try block; a
\* product without a default_code is passed over.
SkuRead ==
    /\ inventory_sync.pc = "sku_read"
    /\ LET i == inventory_sync
           sku == product_product[i.product_ids[i.k]].default_code
       IN  \E ok \in Outcomes :
             InventoryStep(ok,
                 IF ~ok THEN [i EXCEPT !.pc = "done", !.result = Raised]
                 ELSE IF sku = "" THEN NextChanged(i, i.k + 1)
                 ELSE [i EXCEPT !.pc = "lookup"])
    /\ UNCHANGED <<shopify_products, inventoryFrame>>

\* shopify_info = get_shopify_variant_inv_by_sku(sku); without a variant the
\* product is passed over, and with the ERP quantity already on the
\* storefront it is counted without a push.
Lookup ==
    /\ inventory_sync.pc = "lookup"
    /\ LET i == [inventory_sync EXCEPT
                   !.looked_up = @ \cup {inventory_sync.product_ids[inventory_sync.k]}]
           sku == product_product[i.product_ids[i.k]].default_code
       IN  \E ok \in Outcomes :
           \E s \in get_shopify_variant_inv_by_sku(sku, ok) :
             InventoryStep(ok,
                 IF s = 0 THEN NextChanged(i, i.k + 1)
                 ELSE IF Differs(shopify_products[s].inventory_quantity,
                                 i.total_odoo)
                 THEN [i EXCEPT !.pc = "set", !.shopify_info = s]
                 ELSE NextChanged([i EXCEPT !.count = @ + 1], i.k + 1))
    /\ UNCHANGED <<shopify_products, inventoryFrame>>

\* shopify.InventoryLevel.set(...) inside its try block, with the
\* 'Inventory' row of a push; the product is counted either way.
InventorySet ==
    /\ inventory_sync.pc = "set"
    /\ LET i == inventory_sync
           p_id == i.product_ids[i.k]
       IN  \E ok \in Outcomes, w \in BOOLEAN :
             /\ shopify_products' =
                   IF ok THEN [shopify_products EXCEPT
                                 ![i.shopify_info].inventory_quantity = i.total_odoo]
                   ELSE shopify_products
             /\ InventoryStep(ok,
                   IF ok
                   THEN NextChanged(
                            log_event([i EXCEPT !.updates = @ + 1,
                                                !.pushed = @ \cup {p_id},
                                                !.count = @ + 1],
                                      "Inventory", "Info", w), i.k + 1)
                   ELSE NextChanged([i EXCEPT !.count = @ + 1], i.k + 1))
    /\ UNCHANGED inventoryFrame

\* schedule.every(30).minutes.do(scheduled_inventory_sync): the next pass,
\* after one that returned, with the ERP and the storefront as they are.
NextScheduledRun ==
    /\ inventory_sync.pc = "done"
    /\ inventory_sync.result = Result(TRUE, "Returned")
    /\ inventory_sync.fetched
    /\ inventory_sync.run < MaxRuns
    /\ inventory_sync' =
          [IdleInventorySync EXCEPT
             !.run = inventory_sync.run + 1,
             !.last_ids = { inventory_sync.product_ids[a] :
                              a \in DOMAIN inventory_sync.product_ids },
             !.log = inventory_sync.log,
             !.n_log_failed = inventory_sync.n_log_failed]
    /\ UNCHANGED <<faults, shopify_products, inventoryFrame>>

\* ------------------------------------------------------- run_schedule
\* schedule.every(30).minutes.do(scheduled_inventory_sync)
every_minutes == 30

\* perform_inventory_sync(lookback_minutes=35)
lookback_minutes == 35

\* The scheduler thread at its start: the clock in minutes, the time the
\* inventory job is due next, the write_date of the ERP product changes, and
\* of those the ones a pass has fetched; last_pass is the time of the last
\* pass that got its list of changed products.
InitSchedule ==
    [now |-> 0, next_run |-> every_minutes, passes |-> 0, last_pass |-> 0,
     write_dates |-> {}, fetched |-> {}]

scheduleFrame ==
    <<active_processing_ids, sale_order, product_product, res_partner, calls,
      disc, SHOPIFY_SECRET, product_public_category, product_categ_rel,
      qty_available, shopify_products, master_sync, inventory_sync,
      app_settings, customer_sync, res_partner_child, duplicate_scan>>

\* time.sleep(1) in the loop of run_schedule: time passes while no job is
\* due.
Tick ==
    /\ inventory_schedule.now < inventory_schedule.next_run
    /\ inventory_schedule.now + ClockStep <= MaxMinutes
    /\ inventory_schedule' = [inventory_schedule EXCEPT !.now = @ + ClockStep]
    /\ UNCHANGED <<faults, scheduleFrame>>

\* A product is written in the ERP: its write_date is the time of the write.
ErpWrite ==
    /\ Cardinality(inventory_schedule.write_dates) < MaxChanges
    /\ inventory_schedule.now \notin inventory_schedule.write_dates
    /\ inventory_schedule' =
          [inventory_schedule EXCEPT !.write_dates = @ \cup {inventory_schedule.now}]
    /\ UNCHANGED <<faults, scheduleFrame>>

\* odoo.get_changed_products(str(last_run), company_id) with
\* last_run = utcnow() - lookback_minutes: ('write_date', '>', time_limit_str)
changed_since(last_run) ==
    { d \in inventory_schedule.write_dates : d > last_run }

\* schedule.run_pending() with the inventory job due: the pass fetches the
\* products changed inside its lookback window; when the query raises, the
\* pass returns 0, 0 and nothing is fetched. The job is due again
\* every_minutes later either way.
scheduled_inventory_sync ==
    /\ inventory_schedule.now >= inventory_schedule.next_run
    /\ \E ok \in Outcomes :
         LET s == inventory_schedule
             last_run == s.now - lookback_minutes
             due == [s EXCEPT !.next_run = s.now + every_minutes]
         IN  /\ faults' = IF ok THEN faults ELSE faults + 1
             /\ inventory_schedule' =
                   IF ~ok THEN due
                   ELSE [due EXCEPT !.passes = @ + 1, !.last_pass = s.now,
                                    !.fetched = @ \cup changed_since(last_run)]
    /\ UNCHANGED scheduleFrame

\* ---------------------------------------- find_or_create_child_address
\* A child contact of res.partner.
ChildContact(parent_id, type, street, active) ==
    [parent_id |-> parent_id, type |-> type, street |-> street, active |-> active]

AddressArgs ==
    [parent_id : {1}, type : {"delivery", "invoice"},
     street : {"", "1 Main St"}, country_code : {"", "US"}]

\* Mutant: the search domain without its ['street', '=', ...] term.
existing_ids_AnyStreet(parent_id, type, street) ==
    { k \in DOMAIN res_partner_child :
        /\ res_partner_child[k].parent_id = parent_id
        /\ res_partner_child[k].type = type
        /\ res_partner_child[k].active }

\* The search on parent_id, type, street and active.
existing_ids(parent_id, type, street) ==
    { k \in DOMAIN res_partner_child :
        /\ res_partner_child[k].parent_id = parent_id
        /\ res_partner_child[k].type = type
        /\ res_partner_child[k].street = street
        /\ res_partner_child[k].active }

addressFrame ==
    <<active_processing_ids, sale_order, product_product, res_partner, disc,
      SHOPIFY_SECRET, product_public_category, product_categ_rel,
      qty_available, shopify_products, master_sync, inventory_sync,
      app_settings, customer_sync, duplicate_scan, inventory_schedule>>

\* A call of odoo.find_or_create_child_address(parent_id, address_data, type).
find_or_create_child_address(c) ==
    /\ Arrives(c)
    /\ \E address \in AddressArgs :
         calls' = [calls EXCEPT ![c] =
             [IdleCall EXCEPT !.pc = "child_search", !.address = address]]
    /\ UNCHANGED <<faults, res_partner_child, addressFrame>>

\* An exception of an ERP call leaves the function.
AddressRaised(call) == [call EXCEPT !.pc = "done", !.result = Raised]

\* The search: `if existing_ids: return existing_ids[0]'.
ChildSearch(c) ==
    /\ calls[c].pc = "child_search"
    /\ \E ok \in Outcomes :
         LET a == calls[c].address
         IN  \E id \in FirstOf(existing_ids(a.parent_id, a.type, a.street)) :
                StepTo(c, ok,
                    IF ~ok THEN AddressRaised(calls[c])
                    ELSE IF id # 0
                    THEN [calls[c] EXCEPT !.pc = "done", !.child_id = id]
                    ELSE IF a.country_code # ""
                    THEN [calls[c] EXCEPT !.pc = "child_country"]
                    ELSE [calls[c] EXCEPT !.pc = "child_create"])
    /\ UNCHANGED <<res_partner_child, addressFrame>>

\* _resolve_country(vals): the res.country search of a country code.
ResolveCountry(c) ==
    /\ calls[c].pc = "child_country"
    /\ \E ok \in Outcomes :
         StepTo(c, ok,
             IF ~ok THEN AddressRaised(calls[c])
             ELSE [calls[c] EXCEPT !.pc = "child_create"])
    /\ UNCHANGED <<res_partner_child, addressFrame>>

\* The create of the child contact; its id is returned.
ChildCreate(c) ==
    /\ calls[c].pc = "child_create"
    /\ \E ok \in Outcomes :
         LET a == calls[c].address
             call == [calls[c] EXCEPT !.n_child_create = @ + 1]
         IN  IF ~ok
             THEN /\ StepTo(c, ok, AddressRaised(call))
                  /\ UNCHANGED res_partner_child
             ELSE /\ res_partner_child' = Append(res_partner_child,
                         ChildContact(a.parent_id, a.type, a.street, TRUE))
                  /\ StepTo(c, ok, [call EXCEPT !.pc = "done",
                         !.child_id = Len(res_partner_child) + 1])
    /\ UNCHANGED addressFrame

\* ---------------------------------------------------- specifications
InitOrders ==
    /\ active_processing_ids = {}
    /\ sale_order = <<>>
    /\ product_product = InitProducts
    /\ res_partner = InitPartners
    /\ calls = [c \in Calls |-> IdleCall]
    /\ faults = 0
    /\ disc = [price |-> 0, quantity |-> 0, total_discount |-> 0,
               pct |-> DiscountPct(0, 0, 0)]
    /\ product_public_category = <<>>
    /\ product_categ_rel = {}

InitJobs ==
    /\ qty_available = <<>>
    /\ shopify_products = <<>>
    /\ master_sync = IdleMasterSync
    /\ inventory_sync = IdleInventorySync
    /\ app_settings = {}
    /\ customer_sync = IdleCustomerSync
    /\ res_partner_child = <<>>
    /\ duplicate_scan = IdleDuplicateScan
    /\ inventory_schedule = InitSchedule

Init == InitOrders /\ InitJobs /\ SHOPIFY_SECRET = ""

Step(c) ==
    \/ SearchOrder(c) \/ SearchPartner(c) \/ CreatePartner(c) \/ Salesperson(c)
    \/ SearchProduct(c) \/ CheckProduct(c) \/ CreateProduct(c) \/ ResearchProduct(c)
    \/ ReadState(c) \/ UpdateOrder(c) \/ CreateOrder(c) \/ Finally(c)

\* Deliveries handled by concurrent threads.
ConcurrentPayloads ==
    Payloads(OrderIds, OrderNames, Emails,
             ItemLists(ConcurrentItemPool, 1) \ {<<>>}, NoShipping)

Next ==
    \/ \E c \in Calls : Begin(c, ConcurrentPayloads) \/ Step(c)
    \/ ErpAdvance

Spec == Init /\ [][Next]_vars

\* Redeliveries of one order handled one after the other, with every list of
\* up to MaxItems line items.
NoneInFlight == \A c \in Calls : ~InFlight(c)

SequentialPayloads ==
    Payloads({"5001"}, {"#1001"}, Emails, ItemLists(ItemPool, MaxItems), NoShipping)

NextSeq ==
    \/ \E c \in Calls : (NoneInFlight /\ Begin(c, SequentialPayloads)) \/ Step(c)
    \/ ErpAdvance

SpecSeq == Init /\ [][NextSeq]_vars

\* The discount of one line item, over a range of prices, quantities and
\* discounts (app.py:340-343).
ComputeDiscount ==
    /\ \E price \in 0..MaxPrice, quantity \in 0..MaxQty, total_discount \in 0..MaxDisc :
         disc' = [price |-> price, quantity |-> quantity,
                  total_discount |-> total_discount,
                  pct |-> DiscountPct(price, quantity, total_discount)]
    /\ UNCHANGED <<active_processing_ids, sale_order, product_product,
                   res_partner, calls, faults, otherVars>>

SpecDiscount == Init /\ [][ComputeDiscount]_vars

\* Requests on the webhook routes, handled by concurrent threads, with and
\* without a configured secret.
InitWeb == InitOrders /\ InitJobs /\ SHOPIFY_SECRET \in {"", TheSecret}

ProductStep(c) ==
    \/ CategorySearch(c) \/ CategoryCreate(c) \/ VariantSearch(c)
    \/ CategoryRead(c) \/ CategoryWrite(c)

NextWeb ==
    \/ \E c \in Calls :
          \/ order_webhook(c) \/ order_cancelled_webhook(c) \/ product_webhook(c)
          \/ Step(c) \/ ProductStep(c) \/ Respond(c)
    \/ ErpAdvance

SpecWeb == InitWeb /\ [][NextWeb]_vars

\* One pass of sync_products_master over the ERP catalog, from every small
\* storefront catalog.
InitMirror ==
    /\ InitOrders
    /\ SHOPIFY_SECRET = ""
    /\ qty_available = [p \in DOMAIN InitProducts |-> 0]
    /\ shopify_products \in ShopCatalogs
    /\ master_sync = IdleMasterSync
    /\ inventory_sync = IdleInventorySync
    /\ app_settings = {}
    /\ customer_sync = IdleCustomerSync
    /\ res_partner_child = <<>>
    /\ duplicate_scan = IdleDuplicateScan
    /\ inventory_schedule = InitSchedule

NextMirror ==
    \/ StartMasterSync \/ ArchiveFind \/ ArchiveSave \/ Find \/ Save
    \/ Variant \/ Extras \/ CleanupList \/ Cleanup \/ CleanupEnd

SpecMirror == InitMirror /\ [][NextMirror]_vars

\* One pass of perform_inventory_sync over the changed products, from every
\* small storefront catalog.
InitInventory ==
    /\ InitOrders
    /\ SHOPIFY_SECRET = ""
    /\ qty_available \in [DOMAIN InitProducts -> 0..MaxStock]
    /\ shopify_products \in StockCatalogs
    /\ master_sync = IdleMasterSync
    /\ inventory_sync = IdleInventorySync
    /\ app_settings = {}
    /\ customer_sync = IdleCustomerSync
    /\ res_partner_child = <<>>
    /\ duplicate_scan = IdleDuplicateScan
    /\ inventory_schedule = InitSchedule

NextInventory ==
    \/ StartInventorySync \/ ChangedProducts \/ Quantity \/ SkuRead
    \/ Lookup \/ InventorySet \/ NextScheduledRun

SpecInventory == InitInventory /\ [][NextInventory]_vars

\* The scheduler thread (run_schedule) runs its jobs one after the other;
\* order deliveries of a new and of a known customer and saves of the
\* settings page arrive between them, one at a time.
SettingsPayloads ==
    Payloads({"5001"}, {"#1001"}, Emails, { << Item("NEW", 0, 1, 0) >> },
             NoShipping)

JobRunning ==
    \/ master_sync.pc \notin {"idle", "done"}
    \/ inventory_sync.pc \notin {"idle", "done"}

Quiet == NoneInFlight /\ ~JobRunning

InitSettings ==
    /\ InitOrders
    /\ SHOPIFY_SECRET = ""
    /\ qty_available = [p \in DOMAIN InitProducts |-> 0]
    /\ shopify_products \in
          { <<>> } \cup
          { << [ShopProduct(sku, "active") EXCEPT !.inventory_quantity = MaxStock] >> :
              sku \in {"X1", "ARC", "ZZ"} }
    /\ master_sync = IdleMasterSync
    /\ inventory_sync = IdleInventorySync
    /\ app_settings = {}
    /\ customer_sync = IdleCustomerSync
    /\ res_partner_child = <<>>
    /\ duplicate_scan = IdleDuplicateScan
    /\ inventory_schedule = InitSchedule

NextSettings ==
    \/ \E c \in Calls : \/ Quiet /\ api_save_settings(c)
                        \/ Quiet /\ Begin(c, SettingsPayloads)
                        \/ Step(c)
    \/ Quiet /\ sync_customers_master
    \/ Quiet /\ StartMasterSync
    \/ Quiet /\ StartInventorySync
    \/ ArchiveFind \/ ArchiveSave \/ Find \/ Save \/ Variant \/ Extras
    \/ CleanupList \/ Cleanup \/ CleanupEnd
    \/ ChangedProducts \/ Quantity \/ SkuRead \/ Lookup \/ InventorySet

SpecSettings == InitSettings /\ [][NextSettings]_vars

\* Deliveries of an order whose payload carries no email address, with and
\* without the name of the customer, handled one after the other; the ERP
\* may hold a partner without an email address.
NoEmailPayloads ==
    { [data EXCEPT !.email = "", !.customer_name = names[1],
                   !.address_name = names[2]] :
        data \in Payloads({"5001"}, {"#1001"}, {""},
                          { << Item("X1", 10, 2, 4) >>, << Item("NEW", 0, 1, 0) >> },
                          NoShipping),
        names \in { <<"", "">>, <<"Ann Lee", "">>, <<"", "Ann Lee">> } }

InitNoEmail ==
    /\ active_processing_ids = {}
    /\ sale_order = <<>>
    /\ product_product = InitProducts
    /\ res_partner \in { InitPartners, Append(InitPartners, WalkIn) }
    /\ calls = [c \in Calls |-> IdleCall]
    /\ faults = 0
    /\ disc = [price |-> 0, quantity |-> 0, total_discount |-> 0,
               pct |-> DiscountPct(0, 0, 0)]
    /\ product_public_category = <<>>
    /\ product_categ_rel = {}
    /\ InitJobs
    /\ SHOPIFY_SECRET = ""

NextNoEmail ==
    \E c \in Calls : (NoneInFlight /\ Begin(c, NoEmailPayloads)) \/ Step(c)

SpecNoEmail == InitNoEmail /\ [][NextNoEmail]_vars

\* Product webhooks alone, on an ERP whose product X1 has no public category
\* yet or was given the category 'Hats' by an ERP user.
ErpCategories ==
    { [names |-> <<>>, rel |-> {}],
      [names |-> << "Hats" >>, rel |-> { <<1, 1>> }] }

InitCategory ==
    /\ active_processing_ids = {}
    /\ sale_order = <<>>
    /\ product_product = InitProducts
    /\ res_partner = InitPartners
    /\ calls = [c \in Calls |-> IdleCall]
    /\ faults = 0
    /\ disc = [price |-> 0, quantity |-> 0, total_discount |-> 0,
               pct |-> DiscountPct(0, 0, 0)]
    /\ \E erp \in ErpCategories :
          /\ product_public_category = erp.names
          /\ product_categ_rel = erp.rel
    /\ InitJobs
    /\ SHOPIFY_SECRET \in {"", TheSecret}

NextCategory ==
    \E c \in Calls : product_webhook(c) \/ ProductStep(c) \/ Respond(c)

SpecCategory == InitCategory /\ [][NextCategory]_vars

\* The scheduler thread with its inventory job, and the ERP's product
\* changes.
NextSchedule == Tick \/ ErpWrite \/ scheduled_inventory_sync

SpecSchedule == Init /\ [][NextSchedule]_vars

\* The two duplicate cleanups, run by the scheduler one at a time: the
\* catalog pass with its cleanup phase, and the duplicate scan.
MasterRunning == master_sync.pc \notin {"idle", "done"}

ScanRunning == duplicate_scan.pc \notin {"idle", "done"}

NextCleanup ==
    \/ (~ScanRunning /\ StartMasterSync)
    \/ ArchiveFind \/ ArchiveSave \/ Find \/ Save \/ Variant \/ Extras
    \/ CleanupList \/ Cleanup \/ CleanupEnd
    \/ (~MasterRunning /\ StartDuplicateScan)
    \/ ArchiveDuplicate \/ DuplicateScanEnd

SpecCleanup == InitMirror /\ [][NextCleanup]_vars

\* Calls of find_or_create_child_address one after the other, on an ERP
\* whose partner 1 has no child contact, an active one or an archived one.
ErpChildContacts ==
    { <<>> } \cup
    { << ChildContact(1, "delivery", "1 Main St", active) >> :
         active \in BOOLEAN }

InitAddress ==
    /\ InitOrders
    /\ qty_available = <<>>
    /\ shopify_products = <<>>
    /\ master_sync = IdleMasterSync
    /\ inventory_sync = IdleInventorySync
    /\ app_settings = {}
    /\ customer_sync = IdleCustomerSync
    /\ res_partner_child \in ErpChildContacts
    /\ duplicate_scan = IdleDuplicateScan
    /\ inventory_schedule = InitSchedule
    /\ SHOPIFY_SECRET = ""

NextAddress ==
    \E c \in Calls :
       \/ (NoneInFlight /\ find_or_create_child_address(c))
       \/ ChildSearch(c) \/ ResolveCountry(c) \/ ChildCreate(c)

SpecAddress == InitAddress /\ [][NextAddress]_vars

\* ===================================================== the claims
OrdersWithRef(ref) == { o \in DOMAIN sale_order : sale_order[o].client_order_ref = ref }

Returned(c) == calls[c].pc \in {"finally", "done"}

WritesNothing(c) ==
    /\ calls[c].n_partner_create = 0
    /\ calls[c].n_product_create = 0
    /\ calls[c].n_order_create = 0
    /\ calls[c].n_order_write = 0

\* C1: every reachable ERP state holds at most one sale.order per external
\* reference 'ONLINE_' + order name, under any interleaving of deliveries.
C1_OneOrderPerRef ==
    \A o1, o2 \in DOMAIN sale_order :
        sale_order[o1].client_order_ref = sale_order[o2].client_order_ref => o1 = o2

\* C2: the same payload, one that yields a valid line, delivered twice in
\* sequence (no ERP failure, the ERP leaving the order alone): the first call
\* returns 'Synced', the second 'Updated' without calling create_sale_order,
\* and one order holds the reference.
C2_TwiceInSequence ==
    \A c1, c2 \in Calls :
        ( /\ c2 = c1 + 1
          /\ c1 \in calls[c2].preceding
          /\ calls[c2].pc = "done"
          /\ calls[c1].data = calls[c2].data
          /\ calls[c1].result # Result(FALSE, "No valid lines")
          /\ faults = 0
          /\ \A o \in DOMAIN sale_order : sale_order[o].state = "draft" )
        => /\ calls[c1].result = Result(TRUE, "Synced")
           /\ calls[c2].result = Result(TRUE, "Updated")
           /\ calls[c2].n_order_create = 0
           /\ Cardinality(OrdersWithRef(ClientRef(calls[c2].data.name))) = 1

\* C3: of two overlapping deliveries of one storefront order id only one is
\* in flight; the other returned (False, 'Skipped') at the concurrency check
\* and issued no ERP create or write.
C3_ConcurrentSkip ==
    /\ \A c1, c2 \in Calls :
         (c1 # c2 /\ InFlight(c1) /\ InFlight(c2))
            => calls[c1].data.id # calls[c2].data.id
    /\ \A c \in Calls :
         calls[c].result = Result(FALSE, "Skipped")
            => calls[c].pc = "done" /\ WritesNothing(c)

C3_Witness ==
    \E c, d \in Calls :
        /\ calls[c].result = Result(FALSE, "Skipped")
        /\ InFlight(d) /\ calls[d].data.id = calls[c].data.id

\* C4: the registry holds exactly the ids of the deliveries in flight: each
\* call that added its id has removed it when it has returned, on every exit
\* path, and a delivery is skipped as concurrent only when a delivery of
\* its id that entered earlier had not returned yet.
C4_RegistryReleased ==
    /\ active_processing_ids = { calls[c].data.id : c \in { d \in Calls : InFlight(d) } }
    /\ \A c \in Calls :
         calls[c].result = Result(FALSE, "Skipped")
            => \E d \in Calls : /\ d < c
                                /\ d \notin calls[c].preceding
                                /\ calls[d].data.id = calls[c].data.id

ExitResults ==
    { Result(TRUE, "Synced"), Result(TRUE, "Updated"), Result(TRUE, "Skipped"),
      Result(FALSE, "Update Failed"), Raised }

\* A delivery that left by an exception, and a later delivery of the same id
\* that was let in.
C4_Witness ==
    /\ active_processing_ids = {}
    /\ \E c, d \in Calls :
         /\ calls[c].pc = "done" /\ calls[c].result = Raised
         /\ c \in calls[d].preceding
         /\ calls[d].data.id = calls[c].data.id
         /\ calls[d].pc = "done" /\ calls[d].result \in ExitResults

\* C5: once an ERP order is done or cancelled, no step changes its lines,
\* also when it became so while a delivery was in progress.
C5_LockedImmutable ==
    [][ \A o \in DOMAIN sale_order :
          sale_order[o].state \in {"done", "cancel"}
             => sale_order'[o].order_line = sale_order[o].order_line ]_vars

\* C6 as stated: a delivery whose ERP order is already locked when it enters
\* issues no ERP create or write at all.
C6_LockedNoWriteAtAll ==
    \A c \in Calls : calls[c].locked_at_entry => WritesNothing(c)

\* C6, amended: a delivery that reads a locked state (done or cancel) for
\* its ERP order returns (True, 'Skipped') and has issued no sale.order
\* create or write; products and partners it created before stay.
C6_LockedSkipsOrderWrite ==
    \A c \in Calls :
        calls[c].state \in {"done", "cancel"}
           => /\ Returned(c)
              /\ calls[c].result = Result(TRUE, "Skipped")
              /\ calls[c].n_order_create = 0
              /\ calls[c].n_order_write = 0

\* A locked skip of a delivery that had auto-created a product on its way.
C6_Witness ==
    \E c \in Calls :
        /\ calls[c].locked_at_entry
        /\ calls[c].state \in {"done", "cancel"}
        /\ calls[c].result = Result(TRUE, "Skipped")
        /\ calls[c].n_product_create = 1

\* C7: no line built by a delivery, and no line of an ERP order, references
\* an archived product: an item whose SKU matches only an archived product
\* contributes no line.
C7_NoArchivedLine ==
    /\ \A c \in Calls : \A k \in DOMAIN calls[c].lines :
          product_product[calls[c].lines[k].product_id].active
    /\ \A o \in DOMAIN sale_order : \A k \in DOMAIN sale_order[o].order_line :
          product_product[sale_order[o].order_line[k].product_id].active

\* An order synced from a payload of an archived SKU and an active one holds
\* the one line.
C7_Witness ==
    \E c \in Calls :
        /\ calls[c].result = Result(TRUE, "Synced")
        /\ Len(calls[c].data.line_items) = 2
        /\ calls[c].data.line_items[1].sku = "ARC"
        /\ calls[c].data.line_items[2].sku = "X1"
        /\ \E o \in DOMAIN sale_order : /\ sale_order[o].order_line = calls[c].lines
                                        /\ Len(sale_order[o].order_line) = 1

\* Some product of the connector's company scope carries the SKU, active or
\* archived.
SkuKnown(sku, company_id) ==
    \E i \in DOMAIN product_product :
        /\ product_product[i].default_code = sku
        /\ (company_id = 0 \/ product_product[i].company_id \in {0, company_id})

\* C8: create_product is reached for a line item only from a lookup at which
\* no product of the company scope, active or archived, carried the SKU.
C8_CreateOnlyUnknownSku ==
    [][ \A c \in Calls :
          (calls[c].pc # "create_product" /\ calls'[c].pc = "create_product")
             => ~SkuKnown(CurrentSku(calls[c]), calls[c].company_id) ]_vars

\* A product was auto-created for a SKU no product carried.
C8_Witness ==
    \E c \in Calls :
        /\ calls[c].n_product_create = 1
        /\ calls[c].pc = "research_product"
        /\ CurrentSku(calls[c]) = "NEW"

\* C9: the discount is total_discount / (unit_price * quantity) * 100 when
\* unit_price and quantity are positive and 0 otherwise, and no input raises
\* a division by zero.
C9_DiscountFormula ==
    /\ ~disc.pct.err
    /\ disc.pct = IF disc.price > 0 /\ disc.quantity > 0
                  THEN Frac(disc.total_discount * 100, disc.price * disc.quantity)
                  ELSE Frac(0, 1)

\* C10: a delivery whose line building yielded no line returns
\* (False, 'No valid lines') and never reaches the order create or update;
\* no ERP order has an empty line list.
C10_NoEmptyOrder ==
    /\ \A o \in DOMAIN sale_order : sale_order[o].order_line # <<>>
    /\ \A c \in Calls :
         /\ calls[c].lines = <<>>
              => /\ calls[c].pc \notin {"read_state", "update_order", "create_order"}
                 /\ calls[c].n_order_create = 0
                 /\ calls[c].n_order_write = 0
         /\ calls[c].result = Result(FALSE, "No valid lines")
              => calls[c].lines = <<>> /\ Returned(c)

\* A delivery of line items that all fail (archived, no SKU) returned the skip
\* and left the existing order as it was.
C10_Witness ==
    \E c \in Calls :
        /\ calls[c].result = Result(FALSE, "No valid lines")
        /\ Len(calls[c].data.line_items) = 2
        /\ calls[c].existing_order_id # 0
        /\ sale_order[calls[c].existing_order_id].order_line # <<>>

\* C11: a new order whose payload carries shipping lines is created with one
\* order line per shipping line next to its product lines, and, when the
\* email matches a partner with a parent, with the parent as invoice partner
\* and the matched child as shipping partner.
C11_ShippingLines ==
    \A c \in Calls :
        ( /\ calls[c].route = "/webhook/orders"
          /\ calls[c].data.shipping_lines # <<>>
          /\ calls[c].pc = "finally"
          /\ calls[c].result = Result(TRUE, "Synced") )
        => /\ Cardinality(OrdersWithRef(ClientRef(calls[c].data.name))) = 1
           /\ \A o \in OrdersWithRef(ClientRef(calls[c].data.name)) :
                /\ Len(sale_order[o].order_line) =
                      Len(calls[c].lines) + Len(calls[c].data.shipping_lines)
                /\ \A p \in DOMAIN res_partner :
                      ( /\ res_partner[p].email = calls[c].data.email
                        /\ res_partner[p].parent_id # 0 )
                      => /\ sale_order[o].partner_invoice_id = res_partner[p].parent_id
                         /\ sale_order[o].partner_shipping_id = p

\* The ERP calls of partner resolution, salesperson lookup, line building,
\* state read, order update and order create.
OrderSteps ==
    { "search_partner", "create_partner", "salesperson", "search_product",
      "check_product", "create_product", "research_product", "read_state",
      "update_order", "create_order" }

\* C12: a delivery in which one of those ERP calls raised has returned an
\* error result (False with a detail) rather than let the exception out, and
\* has written a ledger row of category 'Order' and status 'Error'.
C12_ErpFailureReturnsError ==
    \A c \in Calls :
        (Returned(c) /\ calls[c].erp_raised \in OrderSteps)
        => /\ calls[c].result # Raised
           /\ ~calls[c].result.ok
           /\ \E k \in DOMAIN calls[c].log :
                 calls[c].log[k] = Event("Order", "Error")

\* C13: the order webhook answers 200 or 202 to every delivery whose
\* signature verifies, whatever process_order_data did, and 401 to the others.
C13_OrderWebhookStatus ==
    \A c \in Calls :
        (calls[c].route = "/webhook/orders" /\ calls[c].http # 0)
        => IF verify_shopify(calls[c].data, calls[c].hmac_header)
           THEN calls[c].http \in {200, 202}
           ELSE calls[c].http = 401

\* The routes that verify the signature.
VerifiedRoutes == { "/webhook/orders", "/webhook/products" }

\* C14: with a secret configured, a request whose signature header is missing
\* or is not the digest of its body under the secret is answered 401 in one
\* step that changes neither the registry nor the ledger nor the ERP, and is
\* never taken up again; every other request is let in.
C14_UnverifiedNeverProcessed ==
    [][ \A c \in Calls :
          /\ ( /\ calls[c].pc = "idle" /\ calls'[c].pc # "idle"
               /\ calls'[c].route \in VerifiedRoutes )
             => IF /\ SHOPIFY_SECRET # ""
                   /\ calls'[c].hmac_header # Digest(SHOPIFY_SECRET, calls'[c].data)
                THEN /\ calls'[c].http = 401
                     /\ calls'[c].pc = "done"
                     /\ calls'[c].log = <<>> /\ calls'[c].n_log_failed = 0
                     /\ WritesNothing(c)'
                     /\ \A d \in Calls \ {c} : calls'[d] = calls[d]
                     /\ UNCHANGED <<active_processing_ids, sale_order,
                                    product_product, res_partner,
                                    product_public_category, product_categ_rel>>
                ELSE calls'[c].http # 401
          /\ calls[c].http = 401 => calls'[c] = calls[c] ]_vars

\* Both verified routes turned a request away: one without the header, one
\* with a digest under another key, while an order of an accepted delivery
\* is in the ERP.
C14_Witness ==
    /\ sale_order # <<>>
    /\ \E c \in Calls :
         /\ calls[c].http = 401
         /\ calls[c].hmac_header \in { NoHeader, Digest("forged", calls[c].data) }
         /\ calls[c].route \in VerifiedRoutes

\* C15: once a delivery to /webhook/orders/cancelled is answered, the ERP
\* order of its external reference is cancelled.
C15_CancelledWebhookCancels ==
    \A c \in Calls :
        (calls[c].route = "/webhook/orders/cancelled" /\ calls[c].http = 200)
        => \A o \in OrdersWithRef(ClientRef(calls[c].data.name)) :
              sale_order[o].state = "cancel"

IsPrefix(s, t) == Len(s) <= Len(t) /\ SubSeq(t, 1, Len(s)) = s

\* C20: every step leaves the ledger rows written so far as they are, adding
\* rows at the end only, and a failed ledger write does not make the
\* operation that logged raise.
C20_LedgerAppendOnly ==
    [][ \A c \in Calls :
          calls[c].pc # "idle"
          => /\ IsPrefix(calls[c].log, calls'[c].log)
             /\ calls'[c].n_log_failed > calls[c].n_log_failed
                  => calls'[c].result # Raised ]_vars

\* A delivery that lost a ledger write ('SKU missing. Creating...') went on,
\* wrote its later row and synced its order.
C20_Witness ==
    \E c \in Calls :
        /\ calls[c].n_log_failed = 1
        /\ calls[c].log = << Event("Order", "Success") >>
        /\ calls[c].n_product_create = 1
        /\ calls[c].result = Result(TRUE, "Synced")

\* The SKUs of the active ERP products.
ErpActiveSkus ==
    { product_product[p].default_code :
        p \in { q \in DOMAIN product_product : product_product[q].active } }

\* The storefront products that are not archived and carry a SKU.
Listed == { s \in DOMAIN shopify_products :
              /\ shopify_products[s].status # "archived"
              /\ shopify_products[s].sku # "" }

Completed(m) == m.pc = "done" /\ m.result = Result(TRUE, "Complete")

\* The product at which the scan of the cleanup stopped: the one whose
\* archiving call failed, if one did.
StoppedAt == { master_sync.j } \cap DOMAIN shopify_products

\* C16: when sync_products_master, its cleanup pass included, has completed,
\* no two storefront products that are not archived share a SKU, and none of
\* them carries a SKU that no active ERP product has (left aside a product
\* whose own archiving call failed).
C16_NoDuplicateNoOrphan ==
    Completed(master_sync)
    => /\ \A s, t \in Listed \ StoppedAt :
             shopify_products[s].sku = shopify_products[t].sku => s = t
       /\ \A s \in Listed \ StoppedAt :
             shopify_products[s].sku \in ErpActiveSkus

\* C17: a pass that got its list of storefront products has, when it ends,
\* gone through every ERP product and examined every storefront product,
\* whatever failed on the way.
C17_PassSurvivesFailures ==
    (master_sync.pc = "done" /\ master_sync.listed)
    => /\ master_sync.result # Raised
       /\ master_sync.k > Len(master_sync.odoo_products)
       /\ master_sync.examined = DOMAIN shopify_products

\* C18: in perform_inventory_sync a failing call for one product (quantity
\* read, SKU read, storefront lookup, inventory set) never aborts the pass:
\* once the changed products are fetched, the function returns normally and
\* has gone through every one of them.
C18_InventoryPassSurvivesFailures ==
    (inventory_sync.pc = "done" /\ inventory_sync.fetched)
        => /\ inventory_sync.result # Raised
           /\ inventory_sync.k > Len(inventory_sync.product_ids)

\* The changed products the loop has finished with.
Handled == { inventory_sync.product_ids[a] :
               a \in { b \in DOMAIN inventory_sync.product_ids :
                         b < inventory_sync.k } }

\* C19: perform_inventory_sync skips a product (no storefront lookup, no
\* push) exactly when its computed ERP quantity is zero and sync_zero_stock
\* is disabled. Stated for the passes in which no call failed.
C19_ZeroSkippedIffDisabled ==
    faults = 0 =>
        \A p \in Handled :
            LET total_odoo ==
                    get_total_qty_for_locations(p, inventory_sync.target_locations)
                skipped == p \notin inventory_sync.looked_up
                                 \cup inventory_sync.pushed
            IN  skipped <=> (total_odoo = 0 /\ ~inventory_sync.sync_zero)

\* What the passes read from the settings: the value get_config gave for a
\* key without a row is the caller's default, and the read did not raise.
C21_ReadsReturnDefault ==
    /\ (customer_sync.pc = "done" /\ QueryGet("cust_auto_sync") = {})
          => /\ customer_sync.cust_auto_sync = FALSE
             /\ customer_sync.result # Raised
    /\ (inventory_sync.pc \notin {"idle", "done"}
           /\ QueryGet("sync_zero_stock") = {}
           /\ QueryGet("inventory_locations") = {})
          => /\ inventory_sync.sync_zero = FALSE
             /\ inventory_sync.target_locations = <<>>

\* A step that changes the settings table is a request of the settings-save
\* route.
C21_SettingsFrame ==
    [][app_settings' # app_settings
          => \E c \in Calls : /\ calls[c].pc = "idle"
                              /\ calls'[c].route = "/api/settings/save"]_vars

\* C21: the settings are changed only by the explicit settings-save
\* operation, never by a sync pass, a webhook handler or a scheduler job, and
\* reading an absent key returns the caller's default without raising.
C21_SettingsOnlyBySave == []C21_ReadsReturnDefault /\ C21_SettingsFrame

\* Every job has run, an order was synced and the settings page was saved.
C21_Witness ==
    /\ customer_sync.pc = "done"
    /\ master_sync.pc = "done"
    /\ inventory_sync.pc = "done" /\ inventory_sync.fetched
    /\ \E c \in Calls : calls[c].route = "/api/settings/save"
    /\ \E c \in Calls : calls[c].result = Result(TRUE, "Synced")

\* The steps of the product webhook of call c.
ProductWebhookStep(c) ==
    /\ calls'[c] # calls[c]
    /\ calls'[c].route = "/webhook/products"

\* C22: process_product_data never creates an ERP product and never writes
\* price or stock: the step of a SKU without an active ERP product changes
\* nothing in the ERP, and the only write for an active product is the link
\* to the public category.
C22_ProductWebhookFrame ==
    [][\A c \in Calls : ProductWebhookStep(c) =>
          /\ product_product' = product_product
          /\ qty_available' = qty_available
          /\ \A link \in product_categ_rel' \ product_categ_rel :
                /\ link[1] \in DOMAIN product_product
                /\ product_product[link[1]].active
                /\ product_product[link[1]].default_code
                       = calls[c].data.variants[calls[c].i]
                /\ link[2] = calls[c].cat_id
          /\ (calls[c].pc = "variant_search"
                 /\ search_product_by_sku(calls[c].data.variants[calls[c].i], 0) = {0})
                => /\ product_categ_rel' = product_categ_rel
                   /\ product_public_category' = product_public_category
                   /\ calls'[c].pc # "categ_read"]_vars

\* A product webhook with an archived and an active SKU has run, and wrote
\* the category of the active product.
C22_Witness ==
    \E c \in Calls :
        /\ calls[c].route = "/webhook/products"
        /\ calls[c].pc = "done"
        /\ calls[c].data.variants = <<"ARC", "X1">>
        /\ calls[c].n_categ_write = 1
        /\ <<1, calls[c].cat_id>> \in product_categ_rel

\* The step in which call c returns 'Updated'.
ReturnsUpdated(c) ==
    /\ calls[c].pc = "update_order"
    /\ calls'[c].result = Result(TRUE, "Updated")

\* C23: when a call returns 'Updated' for an editable existing order, the
\* lines of that order are exactly the lines built from this delivery; no
\* line of an earlier delivery is kept or merged.
C23_UpdateReplacesLines ==
    [][\A c \in Calls : ReturnsUpdated(c) =>
          LET order == sale_order'[calls[c].existing_order_id]
              items == calls[c].data.line_items
          IN  /\ order.order_line = calls[c].lines
              /\ Len(order.order_line) <= Len(items)
              /\ \A l \in DOMAIN order.order_line :
                    \E i \in DOMAIN items :
                       /\ items[i].sku # ""
                       /\ order.order_line[l].product_uom_qty = items[i].quantity
                       /\ order.order_line[l].price_unit = items[i].price]_vars

\* A redelivery with other line items has updated the order an earlier
\* delivery created.
C23_Witness ==
    \E c, d \in Calls :
        /\ calls[d].result = Result(TRUE, "Synced")
        /\ calls[c].result = Result(TRUE, "Updated")
        /\ calls[d].lines # calls[c].lines
        /\ Len(calls[d].lines) = 2
        /\ sale_order[calls[c].existing_order_id].order_line = calls[c].lines

\* The step in which call c returns 'Synced', having created an order.
ReturnsSynced(c) ==
    /\ calls[c].pc = "create_order"
    /\ calls'[c].result = Result(TRUE, "Synced")

\* C24: every successful update of an existing editable order also updates
\* its note and posts an audit message to its activity log, and every newly
\* created order starts in state 'draft' with a note on the payment
\* gateway(s) the delivery names.
C24_NoteAndAuditMessage ==
    [][\A c \in Calls :
          /\ ReturnsUpdated(c) =>
                LET o == calls[c].existing_order_id
                IN  /\ Len(sale_order'[o].message_ids)
                          = Len(sale_order[o].message_ids) + 1
                    /\ sale_order'[o].note # SaleOrderDefaults.note
          /\ ReturnsSynced(c) =>
                LET order == sale_order'[Len(sale_order')]
                IN  /\ order.state = "draft"
                    /\ calls[c].data.payment_gateway_names # <<>>
                          => order.note # SaleOrderDefaults.note]_vars

\* The active partners carrying an email.
PartnersOf(email) == { i \in DOMAIN res_partner : res_partner[i].email = email }

\* C25: a partner is created only when no active partner matches the order
\* email; the partner and invoice partner of the order are the parent of the
\* matched partner when it has one, and the matched or created partner
\* otherwise; the salesperson is the user assigned to that partner, or the
\* connector's own ERP user when none is assigned.
C25_PartnerResolution ==
    [][\A c \in Calls :
          /\ calls'[c].n_partner_create > calls[c].n_partner_create
                => PartnersOf(calls[c].data.email) = {}
          /\ ReturnsSynced(c) =>
                LET order == sale_order'[Len(sale_order')]
                    assigned == res_partner[order.partner_id].user_id
                IN  /\ \E i \in PartnersOf(calls[c].data.email) :
                          order.partner_id =
                              IF res_partner[i].parent_id # 0
                              THEN res_partner[i].parent_id ELSE i
                    /\ order.partner_invoice_id = order.partner_id
                    /\ order.user_id =
                          IF assigned # "" THEN assigned ELSE OdooUid]_vars

\* An order of a contact with a parent was created under the parent, with
\* the parent's salesperson.
C25_Witness ==
    \E c \in Calls :
        /\ calls[c].result = Result(TRUE, "Synced")
        /\ calls[c].data.email = "a@b.com"
        /\ \E o \in DOMAIN sale_order :
              /\ sale_order[o].partner_id = 1
              /\ sale_order[o].partner_invoice_id = 1
              /\ sale_order[o].user_id = "uid_rep"

\* The name the partner of a delivery without an email is to carry: the
\* customer's name, or the order name when the payload has no name either.
SynthesizedName(data) ==
    IF data.customer_name # "" THEN data.customer_name
    ELSE IF data.address_name # "" THEN data.address_name
    ELSE data.name

\* C26: a delivery without an email is never fatal: a partner is resolved
\* or created, a created partner carries a non-empty name synthesized from
\* the customer-name fields or from the order name, and the order is created
\* under that partner, not under an unrelated existing one.  Stated for the
\* calls in which no ERP call failed and which either have no name to give
\* or created no partner.
C26_NoEmailNeverFatal ==
    \A c \in Calls :
        (/\ Returned(c)
         /\ faults = 0
         /\ calls[c].data.email = ""
         /\ calls[c].data.line_items # <<>>
         /\ PartnerName(calls[c].data) = "" \/ calls[c].n_partner_create = 0)
        => /\ calls[c].result.ok
           /\ \A i \in DOMAIN res_partner : res_partner[i].name # ""
           /\ calls[c].result = Result(TRUE, "Synced")
                 => \E o \in DOMAIN sale_order :
                       /\ sale_order[o].client_order_ref = ClientRef(calls[c].data.name)
                       /\ res_partner[sale_order[o].partner_id].name
                             = SynthesizedName(calls[c].data)

\* C27: the first delivery of a new customer completes in one call: the
\* partner is created, the customer mapping recorded, and the call goes on
\* to the order; recording the mapping never turns the delivery into an
\* error once the partner exists.  Stated for the calls in which no ERP call
\* failed.
C27_NewCustomerInOneCall ==
    \A c \in Calls :
        (/\ Returned(c)
         /\ faults = 0
         /\ calls[c].n_partner_create = 1
         /\ \E i \in DOMAIN res_partner :
               res_partner[i].email = calls[c].data.email)
        => /\ calls[c].result.msg # "Customer Error"
           /\ calls[c].partner_id # 0

\* C28: process_order_data never retries: one call issues at most one
\* sale.order create or write, and a call whose create or update failed
\* returns without another order write.
C28_NoRetry ==
    \A c \in Calls :
        /\ calls[c].n_order_create + calls[c].n_order_write <= 1
        /\ calls[c].result.msg \in {"Create Failed", "Update Failed"}
              => Returned(c)

\* The create of a call has failed and the call has returned, leaving no
\* order behind.
C28_Witness ==
    \E c \in Calls :
        /\ calls[c].pc = "done"
        /\ calls[c].result = Result(FALSE, "Create Failed")
        /\ calls[c].n_order_create = 1
        /\ sale_order = <<>>

\* The 'Order' rows a call has written to the ledger.
OrderEvents(call) ==
    { n \in DOMAIN call.log : call.log[n].entity = "Order" }

\* C29: every process_order_data call leaves a ledger entry stating its
\* outcome: whatever the exit (created, updated, locked or concurrent skip,
\* no valid lines, existence-check error, customer error, create or update
\* error), at least one 'Order' event is appended before the call returns.
\* Stated for the calls that return a result and whose ledger writes all
\* committed.
C29_EveryExitLogged ==
    \A c \in Calls :
        (/\ Returned(c)
         /\ calls[c].route = ""
         /\ calls[c].result # Raised
         /\ calls[c].n_log_failed = 0)
        => OrderEvents(calls[c]) # {}

\* C30: perform_inventory_sync is a diff-and-patch: a quantity is pushed
\* only for a product whose storefront quantity differs from the ERP total,
\* the updated count never exceeds the checked count, and a pass over
\* products of the pass before it, with no failure and no change of the ERP
\* or the storefront in between, pushes nothing.
C30_DiffAndPatch ==
    LET i == inventory_sync
    IN  /\ i.pc = "set"
           => shopify_products[i.shopify_info].inventory_quantity # i.total_odoo
        /\ i.updates <= i.count
        /\ Cardinality(i.pushed) = i.updates
        /\ (/\ i.run > 1
            /\ faults = 0
            /\ i.fetched
            /\ \A a \in DOMAIN i.product_ids : i.product_ids[a] \in i.last_ids)
           => i.pc # "set" /\ i.updates = 0

\* A second pass over a product the first pass pushed has returned.
C30_Witness ==
    /\ inventory_sync.run = 2
    /\ inventory_sync.pc = "done"
    /\ faults = 0
    /\ inventory_sync.count = 1
    /\ inventory_sync.product_ids = <<1>>
    /\ 1 \in inventory_sync.last_ids
    /\ \E n \in DOMAIN inventory_sync.log :
          inventory_sync.log[n] = Event("Inventory", "Info")

\* The storefront catalog matches the ERP: every active ERP product has one
\* storefront product, active and with the ERP's quantity, and every other
\* storefront product is archived.
MatchesErp ==
    /\ \A k \in DOMAIN product_product :
          product_product[k].active
          => \E s \in DOMAIN shopify_products :
                /\ shopify_products[s].sku = product_product[k].default_code
                /\ shopify_products[s].status = "active"
                /\ shopify_products[s].inventory_quantity = QtyAvailable(k)
                /\ \A t \in DOMAIN shopify_products :
                      shopify_products[t].sku = shopify_products[s].sku => t = s
    /\ \A s \in DOMAIN shopify_products :
          shopify_products[s].sku \notin ErpActiveSkus
          => shopify_products[s].status = "archived"

\* C31: while the storefront catalog matches the ERP, no step of
\* sync_products_master issues a storefront write, as long as no call fails:
\* no product save, no variant save and no inventory-level set.
C31_NoRedundantWrite ==
    [][(MatchesErp /\ faults' = 0)
       => master_sync.shopify_writes' = master_sync.shopify_writes]_vars

\* The public categories of ERP product p.
CategoriesOf(p) == { link[2] : link \in { l \in product_categ_rel : l[1] = p } }

\* At most one request is being handled.
OneAtATime == Cardinality({ c \in Calls : InFlight(c) }) <= 1

\* C32: once an ERP product has a category, no step of the connector adds to
\* or changes its categories, also when requests are handled one at a time.
C32_CategoryOneTime ==
    [][\A p \in DOMAIN product_product :
          (CategoriesOf(p) # {} /\ OneAtATime)
          => CategoriesOf(p)' = CategoriesOf(p)]_vars

\* The active child contacts of the (parent, address type, street) key of a.
ActiveChildren(a) == existing_ids(a.parent_id, a.type, a.street)

\* The key of child contact k is that of the arguments a.
HasKey(k, a) ==
    /\ res_partner_child[k].parent_id = a.parent_id
    /\ res_partner_child[k].type = a.type
    /\ res_partner_child[k].street = a.street

\* At most one active child contact per key, and a call that has returned
\* holds the id of the active child contact of its key.
C33_OnePerKey ==
    /\ \A k, l \in DOMAIN res_partner_child :
          (/\ res_partner_child[k].active /\ res_partner_child[l].active
           /\ res_partner_child[k].parent_id = res_partner_child[l].parent_id
           /\ res_partner_child[k].type = res_partner_child[l].type
           /\ res_partner_child[k].street = res_partner_child[l].street)
          => k = l
    /\ \A c \in Calls :
          (calls[c].pc = "done" /\ calls[c].result # Raised)
          => /\ calls[c].child_id \in DOMAIN res_partner_child
             /\ HasKey(calls[c].child_id, calls[c].address)
             /\ res_partner_child[calls[c].child_id].active

\* A child contact is created only by a call whose key has no active child
\* contact, and nothing else changes the child contacts.
C33_CreatesOnlyWhenAbsent ==
    [][res_partner_child' # res_partner_child
       => \E c \in Calls :
             /\ calls[c].pc = "child_create"
             /\ ActiveChildren(calls[c].address) = {}
             /\ res_partner_child' = Append(res_partner_child,
                    ChildContact(calls[c].address.parent_id, calls[c].address.type,
                                 calls[c].address.street, TRUE))]_vars

\* C33: after any sequence of find_or_create_child_address calls the ERP
\* holds at most one active child contact per (parent, address type, street)
\* key; a call creates a child contact only when its key has no active one
\* and otherwise returns the id of the existing one.
C33_ChildAddressUnique == []C33_OnePerKey /\ C33_CreatesOnlyWhenAbsent

\* Two calls with the same key have returned one after the other: the first
\* created the child contact, the second returned its id.
C33_Witness ==
    /\ calls[1].pc = "done" /\ calls[2].pc = "done"
    /\ calls[1].address.street = calls[2].address.street
    /\ calls[1].address.type = calls[2].address.type
    /\ calls[1].n_child_create = 1 /\ calls[2].n_child_create = 0
    /\ calls[2].child_id = calls[1].child_id
    /\ calls[1].child_id # 0

\* The ERP products the connector has created.
AutoCreated == (Len(InitProducts) + 1) .. Len(product_product)

\* The deliveries made so far are of different orders.
DifferentOrders ==
    \A c, d \in Calls :
        (c # d /\ calls[c].pc # "idle" /\ calls[d].pc # "idle")
        => /\ calls[c].data.id # calls[d].data.id
           /\ calls[c].data.name # calls[d].data.name

\* C34: whatever the interleaving of process_order_data calls for different
\* orders, at most one ERP product is auto-created for a SKU.
C34_OneProductPerSku ==
    (DifferentOrders /\ faults = 0)
    => \A p, q \in AutoCreated :
          product_product[p].default_code = product_product[q].default_code
          => p = q

\* The id of every call in flight is registered.
C36_OwnerRegistered ==
    \A c \in Calls : InFlight(c) => calls[c].data.id \in active_processing_ids

\* A delivery that arrives while its id is registered is skipped, and its
\* step leaves the registry as it is.
C36_SkipKeepsRegistry ==
    [][\A c \in Calls :
          (/\ calls[c].pc = "idle" /\ calls'[c].pc # "idle"
           /\ calls'[c].data.id \in active_processing_ids)
          => /\ calls'[c].pc = "done"
             /\ calls'[c].result = Result(FALSE, "Skipped")
             /\ active_processing_ids' = active_processing_ids]_vars

\* C36: a call skipped at the concurrency check leaves active_processing_ids
\* unchanged; the id stays registered until its owner finishes, and a
\* delivery of that id arriving in the meantime is skipped.
C36_SkipLeavesRegistry == []C36_OwnerRegistered /\ C36_SkipKeepsRegistry

\* A delivery was skipped, and the call that holds its id has gone on to
\* create the order and is about to release the id.
C36_Witness ==
    /\ calls[2].pc = "done"
    /\ calls[2].result = Result(FALSE, "Skipped")
    /\ calls[1].pc = "finally"
    /\ calls[1].n_order_create = 1
    /\ calls[1].data.id = calls[2].data.id
    /\ calls[1].data.id \in active_processing_ids

\* The ERP partners the connector has created.
CreatedPartners == (Len(InitPartners) + 1) .. Len(res_partner)

\* C37: whatever the interleaving of process_order_data calls for different
\* orders of one customer email without a partner, at most one ERP partner
\* is created for the email.
C37_OnePartnerPerEmail ==
    (DifferentOrders /\ faults = 0)
    => \A p, q \in CreatedPartners :
          res_partner[p].email = res_partner[q].email => p = q

\* The lines process_order_data builds from line items whose SKUs all have
\* an active ERP product.
RECURSIVE BuiltLines(_)
BuiltLines(items) ==
    IF items = <<>> THEN <<>>
    ELSE LET item == Head(items)
             found == search_product_by_sku(item.sku, UserCompany) \ {0}
         IN  << [product_id |-> CHOOSE id \in found : TRUE,
                 product_uom_qty |-> item.quantity,
                 price_unit |-> item.price,
                 discount |-> DiscountPct(item.price, item.quantity,
                                          item.total_discount)] >>
             \o BuiltLines(Tail(items))

\* The delivery received last.
LastDelivery == CHOOSE c \in Calls :
                   /\ calls[c].pc # "idle"
                   /\ \A d \in Calls : calls[d].pc # "idle" => d <= c

\* Every delivery made is of one storefront order, and all have returned.
OneOrderAllReturned ==
    /\ calls[1].pc # "idle"
    /\ \A c \in Calls : ~InFlight(c)
    /\ \A c, d \in Calls :
          (calls[c].pc # "idle" /\ calls[d].pc # "idle")
          => /\ calls[c].data.id = calls[d].data.id
             /\ calls[c].data.name = calls[d].data.name

\* C38: once all process_order_data calls for one storefront order id have
\* returned, the lines of the ERP order, if it is still editable, are those
\* built from the delivery received last, whether or not the deliveries
\* overlapped (for a last delivery with line items, whose SKUs all have an
\* active ERP product, that did not end in an error, and no failing call).
C38_NoRevisionLost ==
    (/\ OneOrderAllReturned
     /\ faults = 0
     /\ calls[LastDelivery].result \in
           { Result(TRUE, "Synced"), Result(TRUE, "Updated"),
             Result(FALSE, "Skipped") }
     /\ calls[LastDelivery].data.line_items # <<>>
     /\ \A i \in DOMAIN calls[LastDelivery].data.line_items :
           LET sku == calls[LastDelivery].data.line_items[i].sku
           IN  sku # "" /\ search_product_by_sku(sku, UserCompany) # {0})
    => \A o \in OrdersWithRef(ClientRef(calls[LastDelivery].data.name)) :
          ~IsLocked(sale_order[o].state)
          => sale_order[o].order_line =
                 BuiltLines(calls[LastDelivery].data.line_items)

\* The storefront products of a SKU that are not archived.
ListingsOf(sku) ==
    { s \in DOMAIN shopify_products :
        shopify_products[s].sku = sku /\ shopify_products[s].status # "archived" }

\* C39: duplicate cleanup never removes the last listing of a SKU: no step
\* of cleanup_shopify_products or of archive_shopify_duplicates leaves a SKU
\* of an active ERP product, listed before the step, without a storefront
\* product that is not archived (no call fails).
C39_LastListingKept ==
    [][\A sku \in ErpActiveSkus :
          (faults' = 0 /\ ListingsOf(sku) # {}) => ListingsOf(sku)' # {}]_vars

\* C35: the scheduled inventory sync leaves no permanent gap: a product
\* change that no later pass can reach any more (its write_date lies before
\* the lookback window of every pass still to come) has been fetched by a
\* pass, also when one scheduled run was missed.
C35_NoPermanentGap ==
    inventory_schedule.passes > 0
    => \A d \in inventory_schedule.write_dates :
          d + lookback_minutes <= inventory_schedule.last_pass + every_minutes
          => d \in inventory_schedule.fetched

====
